---- MODULE Spec2Model ----
(***************************************************************************)
(* A model of build-tracer-rpmbuild.py: the process-tree walker            *)
(* (CompilerExtractor), the compiler-call prefilter, the driver            *)
(* (RpmbuildTracer.main), the per-call preprocessing with the staging of   *)
(* input files, and the atomic file copy of the pool workers.  Each        *)
(* component has its own specification; the components that a              *)
(* specification does not exercise stay in their idle state.               *)
(***************************************************************************)
EXTENDS Integers, Sequences, FiniteSets, TLC

VARIABLES
    \* ---- trace store and walker (StraceData, CompilerExtractor)
    proc_map,        \* the PIDs of the store (keys of StraceData.proc_map)
    trace_records,   \* the records a trace file of the run may hold
    syscall,         \* pid -> the records of ProcTrace.syscall read so far
    closed,          \* PIDs whose record list is known to end where it is read
    exitcode,        \* pid -> ProcTrace.exitcode, for the PIDs in exit_known
    exit_known,      \* PIDs whose exit code the walker has read
    stack,           \* activation records of __walk_proc, innermost last
    compiler_calls,  \* CompilerExtractor.__compiler_calls
    walk_status      \* "idle", "walking", "done" or the exception raised

VARIABLES
    \* ---- __compiler_calls_prefilter
    raw_calls,       \* the list the generator is called with
    counters,        \* Counter of command tuples
    pf_i,            \* index of the call the second loop looks at
    yielded,         \* the calls yielded so far
    pf_pc            \* "idle", "count", "filter" or "done"

VARIABLES
    \* ---- RpmbuildTracer.main
    rpmbuild_args,        \* sys.argv[1:]
    stage,                \* RpmbuildTracer.Stages: [rpmbuild, preprocessing]
    parallel,             \* BUILD_TRACER_PARALLEL
    file_returncode,      \* content of <output_dir>/rpmbuild.returncode, if any
    main_pc,              \* where main is
    rpmbuild_returncode,  \* the local of main, once known
    exit_code,            \* exit status of the driver, once it has exited
    exception,            \* the exception that ended the run, if any
    work,                 \* the work items of __do_preprocessing_compiler_calls
    completed,            \* the work items that returned, in the order they did
    result_json,          \* content of <output_dir>/result.json, if written
    result_writes,        \* how often result.json was written
    stdout                \* the stage markers printed so far

VARIABLES
    \* ---- RpmbuildTracer.do_preprocess_compiler_call
    cc,                   \* the CompilerCall being processed
    fs_files,             \* the regular files that exist, by resolved path
    cwd_exists,           \* cc.command.cwd.exists()
    call_pc,              \* where the call is
    of_i,                 \* position of the loop over cc.open_files
    sources_in_args,      \* the local of that name
    src_i,                \* position of the loop over the sources
    staged,               \* the copies made into <output_dir>/root
    executed,             \* the preprocessor commands given to Popen
    ret,                  \* the local of that name: the ResultItems
    returned,             \* the return value, once returned
    call_log              \* the IGNORED / PREPROCESSED lines printed

VARIABLES
    \* ---- RpmbuildTracer.__atomic_file_copy in the pool workers
    links,                \* the staged directory: name -> inode, if linked
    inode,                \* the inodes: size in chunks, who wrote, metadata
    worker                \* per worker: position, copies begun, open file

VARIABLES
    \* ---- one manifest row: get_source_metadata, then the analyzer
    meta_command,         \* the CompilerCommand of the row
    meta_source,          \* the source argument of the row
    meta_pc,              \* "idle", "start", "row" or "analyzed"
    meta_row,             \* source_metadata of the manifest row, once made
    pvs_studio_args       \* the --language and --std arguments of the analyzer

VARIABLES
    \* ---- StraceData.__run: loading the trace files, choosing the root
    run_files,            \* the parsed trace files, in the order of the glob
    run_parallel,         \* StraceData.__parallel
    run_proc_map,         \* proc_map as a dict: its values in insertion order
    run_root_pid,         \* root_pid, None until chosen
    run_pc                \* "idle", "load", "loaded", "done" or an exception

VARIABLES
    \* ---- CompilerMatcher.match and its two caches
    id_version_ncache,    \* __id_version_ncache: a set of (path, argv[0])
    id_version_cache,     \* __id_version_cache: (path, argv[0]) -> CompilerId
    match_log,            \* the calls so far: pair, result, outcome of the probe ("": none)
    match_pc              \* "idle", "run" or "IndexError"

VARIABLES
    \* ---- RpmbuildTracer.__do_rpmbuild: the arguments of the traced build
    build_args,           \* the parameter rpmbuild_args of __do_rpmbuild
    rpmbuild_args_strace, \* the local of that name, None until computed
    run_command,          \* the local of that name, None until computed
    build_pc              \* "idle", "start", "args" or "command"

VARIABLES
    \* ---- StraceParser.parse_fd on one trace file
    parse_lines,          \* the lines of the file
    parse_i,              \* position of the loop over the lines
    proc,                 \* the ProcTrace being filled
    parse_pc              \* "idle", "lines", "done" or an exception

VARIABLES
    \* ---- CompilerMatcher.version_compare on three version strings
    ver_in,               \* the three version strings a, b, c
    ver_cmp,              \* the comparisons made of them, None until made
    ver_pad,              \* the comparisons with padded operands, None until made
    ver_std,              \* get_default_std for gcc of version a, None until made
    ver_pc                \* "idle", "start", "compared", "padded" or "std"

walkVars == <<proc_map, trace_records, syscall, closed, exitcode, exit_known, stack,
              compiler_calls, walk_status>>
pfVars == <<raw_calls, counters, pf_i, yielded, pf_pc>>

mainVars == <<rpmbuild_args, stage, parallel, file_returncode, main_pc,
              rpmbuild_returncode, exit_code, exception, work, completed,
              result_json, result_writes, stdout>>

callVars == <<cc, fs_files, cwd_exists, call_pc, of_i, sources_in_args, src_i,
              staged, executed, ret, returned, call_log>>

copyVars == <<links, inode, worker>>

metaVars == <<meta_command, meta_source, meta_pc, meta_row, pvs_studio_args>>

runVars == <<run_files, run_parallel, run_proc_map, run_root_pid, run_pc>>

matchVars == <<id_version_ncache, id_version_cache, match_log, match_pc>>

buildArgsVars == <<build_args, rpmbuild_args_strace, run_command, build_pc>>

parseVars == <<parse_lines, parse_i, proc, parse_pc>>

versionVars == <<ver_in, ver_cmp, ver_pad, ver_std, ver_pc>>

vars == <<walkVars, pfVars, mainVars, callVars, copyVars, metaVars, runVars, matchVars, buildArgsVars, parseVars, versionVars>>

\* what the actions of one component leave alone
NotWalk == <<pfVars, mainVars, callVars, copyVars, metaVars, runVars, matchVars, buildArgsVars, parseVars, versionVars>>
NotPrefilter == <<walkVars, mainVars, callVars, copyVars, metaVars, runVars, matchVars, buildArgsVars, parseVars, versionVars>>
NotMain == <<walkVars, pfVars, callVars, copyVars, metaVars, runVars, matchVars, buildArgsVars, parseVars, versionVars>>
NotCall == <<walkVars, pfVars, mainVars, copyVars, metaVars, runVars, matchVars, buildArgsVars, parseVars, versionVars>>
NotCopy == <<walkVars, pfVars, mainVars, callVars, metaVars, runVars, matchVars, buildArgsVars, parseVars, versionVars>>
NotMeta == <<walkVars, pfVars, mainVars, callVars, copyVars, runVars, matchVars, buildArgsVars, parseVars, versionVars>>
NotRun == <<walkVars, pfVars, mainVars, callVars, copyVars, metaVars, matchVars, buildArgsVars, parseVars, versionVars>>
NotMatch == <<walkVars, pfVars, mainVars, callVars, copyVars, metaVars, runVars, buildArgsVars, parseVars, versionVars>>
NotBuildArgs == <<walkVars, pfVars, mainVars, callVars, copyVars, metaVars, runVars, matchVars, parseVars, versionVars>>
NotParse == <<walkVars, pfVars, mainVars, callVars, copyVars, metaVars, runVars, matchVars, buildArgsVars, versionVars>>
NotVersion == <<walkVars, pfVars, mainVars, callVars, copyVars, metaVars, runVars, matchVars, buildArgsVars, parseVars>>

(***************************************************************************)
(* Python's None and optional values: an option is a sequence of length    *)
(* zero or one.                                                            *)
(***************************************************************************)
None == <<>>
Some(x) == <<x>>

(***************************************************************************)
(* Bounds of the model.                                                    *)
(***************************************************************************)
NumPids == 2      \* PIDs 1..NumPids may have a trace file
MaxRecords == 4   \* records of all the trace files together
MaxDepth == 4     \* nesting of __walk_proc before the interpreter gives up

PIDs == 1..NumPids

(***************************************************************************)
(* pathlib: a path is the sequence of its parts; an absolute path starts   *)
(* with the part "/".  Building a Path drops "." parts and keeps "..".     *)
(***************************************************************************)
IsAbsolute(p) == p # <<>> /\ p[1] = "/"

Path(parts) == SelectSeq(parts, LAMBDA c : c # ".")

\* Path.__truediv__: an absolute right operand replaces the left one.
JoinPath(a, b) == IF IsAbsolute(Path(b)) THEN Path(b) ELSE Path(a) \o Path(b)

(***************************************************************************)
(* CompilerMatcher.match as the walker sees it: the path prefilter and     *)
(* the classification of the --version probe of the executable.           *)
(***************************************************************************)
GccId == [id |-> "gcc", like |-> None, version |-> "11.5.0"]

Gcc == "/usr/bin/gcc"
Cc1 == "/usr/libexec/gcc/cc1"
ClangExe == "/usr/bin/clang"

\* __prefilter_by_path_regex on the executables of the model
prefilter_by_path(path) == path \in {Gcc, ClangExe}

\* first line of `<argv0> --version`, classified by __id_version_regex
probe_version(path) == IF path = Gcc THEN Some(GccId) ELSE None

match(path, args) == IF prefilter_by_path(path) THEN probe_version(path) ELSE None

(***************************************************************************)
(* Syscall records (SysCallEntity), as StraceParser.parse_fd stores them.  *)
(***************************************************************************)
fork_syscall_set == {"fork", "vfork", "clone", "clone2", "clone3"}

\* One shape for every record; a field a syscall does not have is empty.
\*   path: chdir/fchdir/open* path argument     executable, argv: execve
\*   cwd: the dirfd path strace decoded (openat*), if any
\*   oflag, mode: open flags and mode; for openat2 the keys of `how`
SysCallEntity(name, rv, path, cwd, executable, argv, oflag, mode) ==
    [name |-> name, returnvalue |-> rv, path |-> path, cwd |-> cwd,
     executable |-> executable, argv |-> argv, oflag |-> oflag, mode |-> mode]

ForkRec(name, child) == SysCallEntity(name, child, <<>>, None, "", <<>>, None, None)
ChdirRec(path) == SysCallEntity("chdir", 0, path, None, "", <<>>, None, None)
FchdirRec(path) == SysCallEntity("fchdir", 0, path, None, "", <<>>, None, None)
ExecveRec(path, argv) == SysCallEntity("execve", 0, <<>>, None, path, argv, None, None)
ExecveatRec == SysCallEntity("execveat", 0, <<>>, None, "", <<>>, None, None)
OpenRec(path, oflag) == SysCallEntity("open", 3, path, None, "", <<>>, Some(oflag), None)
OpenatRec(dir, path, oflag) ==
    SysCallEntity("openat", 3, path, dir, "", <<>>, Some(oflag), None)
\* flags, mode: the values of the keys of `how` that strace printed
OpenatTwoRec(dir, path, flags, mode) ==
    SysCallEntity("openat2", 3, path, dir, "", <<>>, flags, mode)

RootCwd == <<"/", "b">>
HeaderPath == <<"x.h">>

\* The records a trace file of the model may hold.
WalkSysCalls ==
    {ForkRec("fork", c) : c \in PIDs}
    \cup {ChdirRec(<<"sub">>), FchdirRec(<<"/", "b">>)}
    \cup {ExecveRec(Gcc, <<"gcc", "a.c">>), ExecveRec(Cc1, <<"cc1", "a.c">>)}
    \cup {ExecveatRec}
    \cup {OpenRec(HeaderPath, "O_RDONLY")}
    \cup {OpenatRec(None, HeaderPath, "O_RDONLY")}
    \cup {OpenatTwoRec(None, HeaderPath, Some("O_RDONLY"), Some("0"))}

\* Records of traces that change directory and open files in other ways:
\* strace prints the mode of openat2 only with O_CREAT or O_TMPFILE.
IncludeDir == <<"/", "usr", "include">>

WalkPathSysCalls ==
    {ForkRec("vfork", c) : c \in PIDs}
    \cup {ChdirRec(<<"sub">>), ChdirRec(<<"..">>), FchdirRec(<<"/", "b", "sub">>)}
    \cup {ExecveRec(Gcc, <<"gcc", "a.c">>)}
    \cup {ExecveatRec}
    \cup {OpenRec(HeaderPath, "O_RDONLY")}
    \cup {OpenatRec(Some(IncludeDir), <<"stdio.h">>, "O_RDONLY")}
    \cup {OpenatTwoRec(None, HeaderPath, Some("O_RDONLY"), None)}

ExitCodes == {None, Some(0), Some(1)}

(***************************************************************************)
(* __walk_proc.  A frame is one activation: the PID, the index of the next *)
(* record of the for loop, and the locals cwd, is_compiler_internals,      *)
(* compiler_call and open_files.                                           *)
(***************************************************************************)
Frame(pid, cwd, internals) ==
    [pid |-> pid, i |-> 1, cwd |-> cwd, is_compiler_internals |-> internals,
     compiler_call |-> None, open_files |-> <<>>]

Top == stack[Len(stack)]

SetTop(f) == [stack EXCEPT ![Len(stack)] = f]

\* The record the loop reads next: the stored one, or any record of the
\* alphabet when this part of the trace file has not been read before.
RECURSIVE RecordsRead(_)
RecordsRead(n) == IF n = 0 THEN 0 ELSE Len(syscall[n]) + RecordsRead(n - 1)

NextRecords ==
    LET p == Top.pid
        i == Top.i
    IN  IF i <= Len(syscall[p]) THEN {syscall[p][i]}
        ELSE IF p \in closed \/ RecordsRead(NumPids) >= MaxRecords THEN {}
        ELSE trace_records

AtEnd ==
    Top.i > Len(syscall[Top.pid])

Read(sc) ==
    LET p == Top.pid
    IN  syscall' = IF Top.i <= Len(syscall[p]) THEN syscall
                   ELSE [syscall EXCEPT ![p] = Append(@, sc)]

Walking == walk_status = "walking" /\ stack # <<>>

\* fork, vfork, clone*: recurse into the child when it has a trace
WalkFork ==
    /\ Walking
    /\ \E sc \in NextRecords :
        /\ sc.name \in fork_syscall_set
        /\ Read(sc)
        /\ IF sc.returnvalue \in proc_map
           THEN IF Len(stack) >= MaxDepth
                THEN /\ walk_status' = "RecursionError"
                     /\ stack' = stack
                ELSE /\ stack' = Append(stack, Frame(sc.returnvalue, Top.cwd,
                                                     Top.is_compiler_internals))
                     /\ walk_status' = walk_status
           ELSE /\ stack' = SetTop([Top EXCEPT !.i = @ + 1])
                /\ walk_status' = walk_status
    /\ UNCHANGED <<proc_map, trace_records, closed, exitcode, exit_known, compiler_calls>>
    /\ UNCHANGED NotWalk

WalkChdir ==
    /\ Walking
    /\ \E sc \in NextRecords :
        /\ sc.name \in {"chdir", "fchdir"}
        /\ Read(sc)
        /\ stack' = SetTop([Top EXCEPT !.i = @ + 1, !.cwd = JoinPath(@, sc.path)])
    /\ UNCHANGED <<proc_map, trace_records, closed, exitcode, exit_known, compiler_calls, walk_status>>
    /\ UNCHANGED NotWalk

\* ProcTrace.exitcode of the process, read when a CompilerCall is built
ExitCodeOf(p) == IF p \in exit_known THEN {exitcode[p]} ELSE ExitCodes

CompilerCommand(cwd, compiler, executable, args) ==
    [cwd |-> cwd, compiler |-> compiler, executable |-> executable, args |-> args]

CompilerCall(pid, ec, command) ==
    [pid |-> pid, exitcode |-> ec, command |-> command, open_files |-> <<>>]

\* a walker that matches every execve, also inside a compiler
ExecveOpensCallAnywhere(frame, sc) ==
    match(sc.executable, sc.argv) # None

\* the guard of line 916: only outside a compiler is an execve matched
ExecveOpensCall(frame, sc) ==
    /\ frame.is_compiler_internals = FALSE
    /\ match(sc.executable, sc.argv) # None

WalkExecve ==
    /\ Walking
    /\ \E sc \in NextRecords :
        /\ sc.name = "execve"
        /\ Read(sc)
        /\ IF ExecveOpensCall(Top, sc)
           THEN \E ec \in ExitCodeOf(Top.pid) :
                /\ exitcode' = [exitcode EXCEPT ![Top.pid] = ec]
                /\ exit_known' = exit_known \cup {Top.pid}
                /\ stack' = SetTop([Top EXCEPT
                        !.i = @ + 1,
                        !.is_compiler_internals = TRUE,
                        !.compiler_call = Some(CompilerCall(Top.pid, ec,
                            CompilerCommand(Top.cwd, match(sc.executable, sc.argv)[1],
                                            sc.executable, sc.argv)))])
           ELSE /\ stack' = SetTop([Top EXCEPT !.i = @ + 1])
                /\ UNCHANGED <<exitcode, exit_known>>
    /\ UNCHANGED <<proc_map, trace_records, closed, compiler_calls, walk_status>>
    /\ UNCHANGED NotWalk

WalkExecveat ==
    /\ Walking
    /\ \E sc \in NextRecords :
        /\ sc.name = "execveat"
        /\ Read(sc)
        /\ walk_status' = "NotImplementedError"
    /\ UNCHANGED <<proc_map, trace_records, closed, exitcode, exit_known, stack, compiler_calls>>
    /\ UNCHANGED NotWalk

\* An entry of open_files: the base directory and the arguments of the
\* record, which the code keeps by reference (rec names the record).
OpenFile(base, sc, args) == [base |-> base, args |-> args, rec |-> <<Top.pid, Top.i>>]

\* a walker that resolves every open against the cwd of the root
OpenBaseOfRoot(sc) == RootCwd

\* lines 925-947: the cwd, or the directory path the tracer supplied
OpenBase(sc) ==
    IF sc.name = "open" THEN Top.cwd
    ELSE IF sc.cwd = None THEN Path(Top.cwd) ELSE Path(sc.cwd[1])

WalkOpen ==
    /\ Walking
    /\ \E sc \in NextRecords :
        /\ sc.name \in {"open", "openat", "openat2"}
        /\ Read(sc)
        /\ IF Top.is_compiler_internals /\ sc.returnvalue >= 0
           THEN IF sc.name = "openat2"
                THEN IF sc.oflag # None /\ sc.mode # None
                     THEN /\ stack' = SetTop([Top EXCEPT !.i = @ + 1,
                               !.open_files = Append(@, OpenFile(OpenBase(sc), sc,
                                   [path |-> sc.path, oflag |-> sc.oflag[1], mode |-> sc.mode]))])
                          /\ walk_status' = walk_status
                     ELSE /\ walk_status' = "KeyError"
                          /\ stack' = stack
                ELSE /\ stack' = SetTop([Top EXCEPT !.i = @ + 1,
                          !.open_files = Append(@, OpenFile(OpenBase(sc), sc,
                              [path |-> sc.path, oflag |-> sc.oflag[1], mode |-> sc.mode]))])
                     /\ walk_status' = walk_status
           ELSE /\ stack' = SetTop([Top EXCEPT !.i = @ + 1])
                /\ walk_status' = walk_status
    /\ UNCHANGED <<proc_map, trace_records, closed, exitcode, exit_known, compiler_calls>>
    /\ UNCHANGED NotWalk

\* The end of the for loop: attach the open files to this process's call,
\* or hand them to the caller, which merges them and goes on.
WalkReturn ==
    /\ Walking
    /\ AtEnd
    /\ closed' = closed \cup {Top.pid}
    /\ LET f == Top
           mine == f.compiler_call # None
           up == IF mine THEN <<>> ELSE f.open_files
           rest == SubSeq(stack, 1, Len(stack) - 1)
       IN  /\ compiler_calls' =
                IF mine
                THEN Append(compiler_calls,
                            [f.compiler_call[1] EXCEPT !.open_files = f.open_files])
                ELSE compiler_calls
           /\ IF rest = <<>>
              THEN /\ stack' = <<>>
                   /\ walk_status' = "done"
              ELSE /\ stack' = [rest EXCEPT ![Len(rest)] =
                                   [@ EXCEPT !.i = @ + 1,
                                             !.open_files = @ \o up]]
                   /\ walk_status' = walk_status
    /\ UNCHANGED <<proc_map, trace_records, syscall, exitcode, exit_known>>
    /\ UNCHANGED NotWalk

RootPid == 1

\* CompilerExtractor.__init__: the walk starts at the root with the root cwd
WalkStart ==
    /\ proc_map \in {S \in SUBSET PIDs : RootPid \in S}
    /\ syscall = [p \in PIDs |-> <<>>]
    /\ closed = {}
    /\ exitcode = [p \in PIDs |-> None]
    /\ exit_known = {}
    /\ stack = <<Frame(RootPid, RootCwd, FALSE)>>
    /\ compiler_calls = <<>>
    /\ walk_status = "walking"

WalkInit == WalkStart /\ trace_records = WalkSysCalls

\* the same walk over traces that change directory up and down and open
\* files through a directory descriptor and through openat2
WalkPathsInit == WalkStart /\ trace_records = WalkPathSysCalls

WalkIdle ==
    /\ proc_map = {}
    /\ trace_records = {}
    /\ syscall = <<>>
    /\ closed = {}
    /\ exitcode = <<>>
    /\ exit_known = {}
    /\ stack = <<>>
    /\ compiler_calls = <<>>
    /\ walk_status = "idle"

WalkNext ==
    \/ WalkFork
    \/ WalkChdir
    \/ WalkExecve
    \/ WalkExecveat
    \/ WalkOpen
    \/ WalkReturn

(***************************************************************************)
(* __compiler_calls_prefilter: the first loop counts the command tuples,   *)
(* the second one yields the calls that pass the three tests.              *)
(***************************************************************************)
MaxCalls == 3     \* length of the raw call list

\* CompilerCommand.as_tuple
as_tuple(command) ==
    <<command.cwd, command.compiler, command.executable, command.args>>

PfCommands ==
    {CompilerCommand(RootCwd, GccId, Gcc, <<"gcc", "conftest.c">>),
     CompilerCommand(RootCwd, GccId, Gcc, <<"gcc", "a.c">>)}

PfOpenFiles ==
    {<<>>, <<[base |-> RootCwd,
              args |-> [path |-> HeaderPath, oflag |-> "O_RDONLY", mode |-> None],
              rec |-> <<1, 1>>]>>}

\* raw call lists: the n-th call belongs to PID n
PfRawCalls ==
    UNION {[1..n -> ExitCodes \X PfCommands \X PfOpenFiles] : n \in 0..MaxCalls}

PfCall(n, t) == [pid |-> n, exitcode |-> t[1], command |-> t[2], open_files |-> t[3]]

PrefilterInit ==
    /\ \E l \in PfRawCalls : raw_calls = [n \in DOMAIN l |-> PfCall(n, l[n])]
    /\ counters = <<>>
    /\ pf_i = 1
    /\ yielded = <<>>
    /\ pf_pc = "count"

PrefilterIdle ==
    /\ raw_calls = <<>>
    /\ counters = <<>>
    /\ pf_i = 1
    /\ yielded = <<>>
    /\ pf_pc = "idle"

\* lines 1264-1267
PrefilterCount ==
    /\ pf_pc = "count"
    /\ LET tuples == {as_tuple(raw_calls[k].command) : k \in 1..Len(raw_calls)}
       IN  counters' = [t \in tuples |->
                Cardinality({k \in 1..Len(raw_calls) : as_tuple(raw_calls[k].command) = t})]
    /\ pf_pc' = IF raw_calls = <<>> THEN "done" ELSE "filter"
    /\ UNCHANGED <<raw_calls, pf_i, yielded>>
    /\ UNCHANGED NotPrefilter

PfAdvance ==
    /\ pf_i' = pf_i + 1
    /\ pf_pc' = IF pf_i + 1 > Len(raw_calls) THEN "done" ELSE "filter"
    /\ UNCHANGED <<raw_calls, counters>>
    /\ UNCHANGED NotPrefilter

\* a prefilter that lets pairs through and drops only triples
IsTriplicate(cnt) == cnt > 2

\* the multiplicity above which a call counts as a duplicate (line 1282)
IsDuplicate(cnt) == cnt > 1

\* line 1271: cc.exitcode != 0
PrefilterIgnoreExitCode ==
    /\ pf_pc = "filter"
    /\ raw_calls[pf_i].exitcode # Some(0)
    /\ yielded' = yielded
    /\ PfAdvance

\* line 1276: no open files
PrefilterIgnoreNoOpenFiles ==
    /\ pf_pc = "filter"
    /\ raw_calls[pf_i].exitcode = Some(0)
    /\ Len(raw_calls[pf_i].open_files) = 0
    /\ yielded' = yielded
    /\ PfAdvance

\* line 1282: the tuple was counted more than once
PrefilterIgnoreMultiple ==
    /\ pf_pc = "filter"
    /\ raw_calls[pf_i].exitcode = Some(0)
    /\ Len(raw_calls[pf_i].open_files) # 0
    /\ IsDuplicate(counters[as_tuple(raw_calls[pf_i].command)])
    /\ yielded' = yielded
    /\ PfAdvance

\* line 1286
PrefilterYield ==
    /\ pf_pc = "filter"
    /\ raw_calls[pf_i].exitcode = Some(0)
    /\ Len(raw_calls[pf_i].open_files) # 0
    /\ ~IsDuplicate(counters[as_tuple(raw_calls[pf_i].command)])
    /\ yielded' = Append(yielded, raw_calls[pf_i])
    /\ PfAdvance

PrefilterNext ==
    \/ PrefilterCount
    \/ PrefilterIgnoreExitCode
    \/ PrefilterIgnoreNoOpenFiles
    \/ PrefilterIgnoreMultiple
    \/ PrefilterYield

(***************************************************************************)
(* RpmbuildTracer.main and __do_preprocessing.  The trace parsing, the     *)
(* walk and the prefilter are one step here that either raises or yields   *)
(* the work items; a work item is one call of do_preprocess_compiler_call, *)
(* run by the pool (or in line when parallel = 1).                         *)
(***************************************************************************)
MaxItems == 2      \* compiler calls that survive the prefilter
MaxSources == 2    \* source arguments of one call
MaxParallel == 2   \* BUILD_TRACER_PARALLEL

BinaryBuildFlags == {"-ba", "-bb", "-ra", "-rb", "-ta", "-tb", "--rebuild", "--recompile"}

Elems(seq) == {seq[k] : k \in 1..Len(seq)}

\* line 1071
IsBinaryBuild(args) == Elems(args) \cap BinaryBuildFlags # {}

\* __get_rpmbuild_spec_path finds a *.spec argument
HasSpecFile(args) == "pkg.spec" \in Elems(args)

MainArgs == {<<"-ba", "pkg.spec">>, <<"-bs", "pkg.spec">>, <<"--rebuild", "pkg.src.rpm">>}

\* RpmbuildTracer.Stages for the values of BUILD_TRACER_STAGE
Stages(arg) ==
    LET lst == CASE arg = "all" -> {"all"}
                 [] arg = "rpmbuild" -> {"rpmbuild"}
                 [] arg = "preprocessing" -> {"preprocessing"}
                 [] arg = "rpmbuild,preprocessing" -> {"rpmbuild", "preprocessing"}
    IN  [rpmbuild |-> "rpmbuild" \in lst \/ arg = "all",
         preprocessing |-> "preprocessing" \in lst \/ arg = "all"]

StageArgs == {"all", "rpmbuild", "preprocessing", "rpmbuild,preprocessing"}

\* Popen.returncode of the build: an exit status, or minus a signal number
ReturnCodes == {0, 1, 0 - 9}

MainInit ==
    /\ rpmbuild_args \in MainArgs
    /\ stage \in {Stages(a) : a \in StageArgs}
    /\ parallel \in 1..MaxParallel
    /\ file_returncode \in {None} \cup {Some(rc) : rc \in ReturnCodes}
    /\ main_pc = "start"
    /\ rpmbuild_returncode = None
    /\ exit_code = None
    /\ exception = None
    /\ work = <<>>
    /\ completed = <<>>
    /\ result_json = None
    /\ result_writes = 0
    /\ stdout = <<>>

MainIdle ==
    /\ rpmbuild_args = <<>>
    /\ stage = Stages("all")
    /\ parallel = 1
    /\ file_returncode = None
    /\ main_pc = "idle"
    /\ rpmbuild_returncode = None
    /\ exit_code = None
    /\ exception = None
    /\ work = <<>>
    /\ completed = <<>>
    /\ result_json = None
    /\ result_writes = 0
    /\ stdout = <<>>

\* the exit status a parent sees after sys.exit(code): the low eight bits
ExitStatus(code) == code % 256

\* sys.exit(code), after __print_summary when summary is set
Exit(code, summary) ==
    /\ exit_code' = Some(ExitStatus(code))
    /\ main_pc' = "exited"
    /\ stdout' = IF summary THEN Append(stdout, "SUMMARY") ELSE stdout

\* an exception nobody catches: traceback, exit status 1
Raise(e) ==
    /\ exception' = Some(e)
    /\ exit_code' = Some(1)
    /\ main_pc' = "exited"

\* lines 1071-1074: not a binary build, run rpmbuild as it is and exit
MainExecOrig ==
    /\ main_pc = "start"
    /\ ~IsBinaryBuild(rpmbuild_args)
    /\ \E rc \in ReturnCodes :
        /\ rpmbuild_returncode' = Some(rc)
        /\ Exit(rc, FALSE)
    /\ UNCHANGED <<rpmbuild_args, stage, parallel, file_returncode, exception,
                   work, result_json, result_writes>>
    /\ UNCHANGED completed
    /\ UNCHANGED NotMain

\* lines 1080-1081
MainStartRpmbuild ==
    /\ main_pc = "start"
    /\ IsBinaryBuild(rpmbuild_args)
    /\ stage.rpmbuild
    /\ main_pc' = "rpmbuild"
    /\ stdout' = Append(stdout, "RPMBUILD-START")
    /\ UNCHANGED <<rpmbuild_args, stage, parallel, file_returncode,
                   rpmbuild_returncode, exit_code, exception, work, result_json,
                   result_writes>>
    /\ UNCHANGED completed
    /\ UNCHANGED NotMain

\* lines 1142-1145: rpmspec is run with check=True
MainRpmspecFails ==
    /\ main_pc = "rpmbuild"
    /\ HasSpecFile(rpmbuild_args)
    /\ Raise("CalledProcessError")
    /\ UNCHANGED <<rpmbuild_args, stage, parallel, file_returncode,
                   rpmbuild_returncode, work, result_json, result_writes, stdout>>
    /\ UNCHANGED completed
    /\ UNCHANGED NotMain

\* lines 1083-1086 and 1214-1224: the traced build; its return code is
\* written to rpmbuild.returncode
MainDoRpmbuild ==
    /\ main_pc = "rpmbuild"
    /\ \E rc \in ReturnCodes :
        /\ file_returncode' = Some(rc)
        /\ rpmbuild_returncode' = Some(rc)
    /\ main_pc' = "check"
    /\ stdout' = Append(stdout, "RPMBUILD-END")
    /\ UNCHANGED <<rpmbuild_args, stage, parallel, exit_code, exception, work,
                   result_json, result_writes>>
    /\ UNCHANGED completed
    /\ UNCHANGED NotMain

\* lines 1087-1093: the rpmbuild stage is skipped, the code is read back
MainReadReturncode ==
    /\ main_pc = "start"
    /\ IsBinaryBuild(rpmbuild_args)
    /\ ~stage.rpmbuild
    /\ IF file_returncode = None
       THEN /\ Raise("FileNotFoundError")
            /\ UNCHANGED rpmbuild_returncode
       ELSE /\ rpmbuild_returncode' = file_returncode
            /\ main_pc' = "check"
            /\ UNCHANGED <<exit_code, exception>>
    /\ UNCHANGED <<rpmbuild_args, stage, parallel, file_returncode, work,
                   result_json, result_writes, stdout>>
    /\ UNCHANGED completed
    /\ UNCHANGED NotMain

\* a driver that takes only positive return codes for failures
BuildFailedPositive(rc) == rc > 0

\* line 1100
BuildFailed(rc) == rc # 0

\* lines 1100-1101
MainBuildFailed ==
    /\ main_pc = "check"
    /\ BuildFailed(rpmbuild_returncode[1])
    /\ Exit(rpmbuild_returncode[1], TRUE)
    /\ UNCHANGED <<rpmbuild_args, stage, parallel, file_returncode,
                   rpmbuild_returncode, exception, work, result_json, result_writes>>
    /\ UNCHANGED completed
    /\ UNCHANGED NotMain

\* lines 1107 and 1114: the preprocessing stage is not selected
MainSkipPreprocessing ==
    /\ main_pc = "check"
    /\ ~BuildFailed(rpmbuild_returncode[1])
    /\ ~stage.preprocessing
    /\ Exit(0, TRUE)
    /\ UNCHANGED <<rpmbuild_args, stage, parallel, file_returncode,
                   rpmbuild_returncode, exception, work, result_json, result_writes>>
    /\ UNCHANGED completed
    /\ UNCHANGED NotMain

\* lines 1107-1108 and 1442
MainStartPreprocessing ==
    /\ main_pc = "check"
    /\ ~BuildFailed(rpmbuild_returncode[1])
    /\ stage.preprocessing
    /\ main_pc' = "parse"
    /\ stdout' = Append(stdout, "PARSE-STRACE-START")
    /\ UNCHANGED <<rpmbuild_args, stage, parallel, file_returncode,
                   rpmbuild_returncode, exit_code, exception, work, result_json,
                   result_writes>>
    /\ UNCHANGED completed
    /\ UNCHANGED NotMain

\* lines 1444-1452: StraceData or the walk raises (no trace files, execveat)
MainParseRaises ==
    /\ main_pc = "parse"
    /\ \E e \in {"ValueError", "NotImplementedError"} : Raise(e)
    /\ UNCHANGED <<rpmbuild_args, stage, parallel, file_returncode,
                   rpmbuild_returncode, work, result_json, result_writes, stdout>>
    /\ UNCHANGED completed
    /\ UNCHANGED NotMain

WorkItem(k) == [state |-> "queued", sources |-> k, rows |-> <<>>]

\* lines 1444-1464: the calls that survive the prefilter become work items
MainParse ==
    /\ main_pc = "parse"
    /\ \E n \in 0..MaxItems : \E ks \in [1..n -> 1..MaxSources] :
        work' = [i \in 1..n |-> WorkItem(ks[i])]
    /\ main_pc' = "pool"
    /\ stdout' = stdout \o <<"PARSE-STRACE-END", "PREPROCESSING-START">>
    /\ UNCHANGED <<rpmbuild_args, stage, parallel, file_returncode,
                   rpmbuild_returncode, exit_code, exception, result_json,
                   result_writes>>
    /\ UNCHANGED completed
    /\ UNCHANGED NotMain

ItemsIn(st) == {i \in 1..Len(work) : work[i].state = st}

\* a worker takes an item; without a pool the items are taken in order,
\* one at a time, and none after one has raised
MainItemStart ==
    \E i \in 1..Len(work) :
    /\ main_pc = "pool"
    /\ work[i].state = "queued"
    /\ Cardinality(ItemsIn("running")) < parallel
    /\ parallel = 1 => (ItemsIn("raised") = {} /\ \A j \in ItemsIn("queued") : i <= j)
    /\ work' = [work EXCEPT ![i].state = "running"]
    /\ UNCHANGED <<rpmbuild_args, stage, parallel, file_returncode, main_pc,
                   rpmbuild_returncode, exit_code, exception, result_json,
                   result_writes, stdout>>
    /\ UNCHANGED completed
    /\ UNCHANGED NotMain

\* the rows of the sources in ok, in the order of the source arguments
RECURSIVE RowsOf(_, _, _)
RowsOf(i, k, ok) ==
    IF k = 0 THEN <<>>
    ELSE IF k \in ok THEN Append(RowsOf(i, k - 1, ok), <<i, k>>)
    ELSE RowsOf(i, k - 1, ok)

\* do_preprocess_compiler_call returns: one row per source whose
\* preprocessor run succeeded
MainItemDone ==
    \E i \in 1..Len(work) :
    /\ main_pc = "pool"
    /\ work[i].state = "running"
    /\ \E ok \in SUBSET (1..work[i].sources) :
        work' = [work EXCEPT ![i].state = "done",
                             ![i].rows = RowsOf(i, work[i].sources, ok)]
    /\ UNCHANGED <<rpmbuild_args, stage, parallel, file_returncode, main_pc,
                   rpmbuild_returncode, exit_code, exception, result_json,
                   result_writes, stdout>>
    /\ completed' = Append(completed, i)
    /\ UNCHANGED NotMain

\* do_preprocess_compiler_call raises (Popen cannot start the compiler)
MainItemRaises ==
    \E i \in 1..Len(work) :
    /\ main_pc = "pool"
    /\ work[i].state = "running"
    /\ work' = [work EXCEPT ![i].state = "raised"]
    /\ UNCHANGED <<rpmbuild_args, stage, parallel, file_returncode, main_pc,
                   rpmbuild_returncode, exit_code, exception, result_json,
                   result_writes, stdout>>
    /\ UNCHANGED completed
    /\ UNCHANGED NotMain

\* the exception of a work item reaches main: at once without a pool, from
\* pool.map when every item has ended
MainPoolRaises ==
    /\ main_pc = "pool"
    /\ ItemsIn("raised") # {}
    /\ parallel > 1 => ItemsIn("running") \cup ItemsIn("queued") = {}
    /\ Raise("OSError")
    /\ UNCHANGED <<rpmbuild_args, stage, parallel, file_returncode,
                   rpmbuild_returncode, work, result_json, result_writes, stdout>>
    /\ UNCHANGED completed
    /\ UNCHANGED NotMain

\* a driver that writes the manifest as soon as one item is done
SomeItemDone == ItemsIn("done") # {}

\* pool.map (or the loop over the generator) has returned every result
AllItemsDone == \A i \in 1..Len(work) : work[i].state = "done"

\* results.extend(rr) for rr in all_results, in the order the items returned
RECURSIVE ResultsAsCompleted(_)
ResultsAsCompleted(n) ==
    IF n = 0 THEN <<>> ELSE ResultsAsCompleted(n - 1) \o work[completed[n]].rows

\* results.extend(rr) for rr in all_results, in the order of the items
RECURSIVE Results(_)
Results(n) == IF n = 0 THEN <<>> ELSE Results(n - 1) \o work[n].rows

\* lines 1430-1436 and 1466-1478: the result list is built and written
MainWriteResult ==
    /\ main_pc = "pool"
    /\ AllItemsDone
    /\ result_json' = Some(Results(Len(work)))
    /\ result_writes' = result_writes + 1
    /\ main_pc' = "written"
    /\ stdout' = stdout \o <<"PREPROCESSING-END", "WRITE-RESULT-START", "WRITE-RESULT-END">>
    /\ UNCHANGED <<rpmbuild_args, stage, parallel, file_returncode,
                   rpmbuild_returncode, exit_code, exception, work>>
    /\ UNCHANGED completed
    /\ UNCHANGED NotMain

\* line 1114
MainExitOk ==
    /\ main_pc = "written"
    /\ Exit(0, TRUE)
    /\ UNCHANGED <<rpmbuild_args, stage, parallel, file_returncode,
                   rpmbuild_returncode, exception, work, result_json, result_writes>>
    /\ UNCHANGED completed
    /\ UNCHANGED NotMain

MainNext ==
    \/ MainExecOrig
    \/ MainStartRpmbuild
    \/ MainRpmspecFails
    \/ MainDoRpmbuild
    \/ MainReadReturncode
    \/ MainBuildFailed
    \/ MainSkipPreprocessing
    \/ MainStartPreprocessing
    \/ MainParseRaises
    \/ MainParse
    \/ MainItemStart
    \/ MainItemDone
    \/ MainItemRaises
    \/ MainPoolRaises
    \/ MainWriteResult
    \/ MainExitOk

(***************************************************************************)
(* CompilerMatcher.get_sources_from_args and make_preprocessor_command.    *)
(***************************************************************************)
MaxArgs == 4       \* arguments after argv[0]
MaxOpens == 2      \* open files attributed to one call

\* os.path.splitext(arg)[1] for the arguments used here
SplitExt(arg) ==
    CASE arg \in {"a.c", "b.c", "CMakeFiles/3.27.6/CMakeCCompilerId.c"} -> ".c"
      [] arg = "x.cpp" -> ".cpp"
      [] arg = "a.out" -> ".out"
      [] arg = "x.h" -> ".h"
      [] OTHER -> ""

\* os.path.basename(source) for the arguments used here
Basename(arg) ==
    IF arg = "CMakeFiles/3.27.6/CMakeCCompilerId.c" THEN "CMakeCCompilerId.c" ELSE arg

\* the extensions of Language.source_exts whose file type is SOURCE
SourceExts == {".c", ".C", ".c++", ".cc", ".cpp", ".cxx"}

get_sources_from_args(cc_command) ==
    SelectSeq(cc_command.args, LAMBDA arg : SplitExt(arg) \in SourceExts)

(***************************************************************************)
(* CompilerMatcher.get_source_metadata with the tables of default and      *)
(* -ansi standards, and PVS.map_std of the analyzer.                       *)
(***************************************************************************)
C == "c"
CXX == "c++"

\* tuple(map(int, v.split("."))) for the versions used here
versiontuple(v) ==
    CASE v = "11.5.0" -> <<11, 5, 0>>
      [] v = "4.8.5" -> <<4, 8, 5>>
      [] v = "15.0.7" -> <<15, 0, 7>>
      [] v = "1.29.0" -> <<1, 29, 0>>
      [] v = "1.28.0" -> <<1, 28, 0>>
      [] v = "3.6.0" -> <<3, 6, 0>>
      [] v = "5.0.0" -> <<5, 0, 0>>
      [] v = "6.0.0" -> <<6, 0, 0>>
      [] v = "11.0.0" -> <<11, 0, 0>>
      [] v = "15.0.0" -> <<15, 0, 0>>
      [] v = "16.0.0" -> <<16, 0, 0>>
      [] v = "1" -> <<1>>
      [] v = "1.0" -> <<1, 0>>
      [] v = "2" -> <<2>>
      [] v = "1.3" -> <<1, 3>>
      [] v = "1.28" -> <<1, 28>>
      [] v = "1.28.0.0" -> <<1, 28, 0, 0>>
      [] v = "1.28.1" -> <<1, 28, 1>>
      [] v = "1.028" -> <<1, 28>>
      [] v = "4.9.0" -> <<4, 9, 0>>
      [] v = "5.0.1" -> <<5, 0, 1>>
      [] v = "5.9.9" -> <<5, 9, 9>>
      [] v = "10.2.1" -> <<10, 2, 1>>
      [] v = "14.2.0" -> <<14, 2, 0>>
      [] v = "15.0.1" -> <<15, 0, 1>>

\* comparison of two tuples of integers of the same length: -1, 0 or 1
RECURSIVE TupleCompare(_, _)
TupleCompare(a, b) ==
    IF a = <<>> THEN 0
    ELSE IF a[1] < b[1] THEN 0 - 1
    ELSE IF a[1] > b[1] THEN 1
    ELSE TupleCompare(Tail(a), Tail(b))

PadZeros(t, n) == t \o [k \in 1..(n - Len(t)) |-> 0]

\* a comparison of the tuples as they are: a proper prefix is the smaller
version_compare_unpadded(a, b) ==
    LET at == versiontuple(a)
        bt == versiontuple(b)
        n == IF Len(at) < Len(bt) THEN Len(at) ELSE Len(bt)
        c == TupleCompare(SubSeq(at, 1, n), SubSeq(bt, 1, n))
    IN  IF c # 0 THEN c
        ELSE IF Len(at) < Len(bt) THEN 0 - 1
        ELSE IF Len(at) > Len(bt) THEN 1 ELSE 0

\* lines 240-255
version_compare(a, b) ==
    LET at == versiontuple(a)
        bt == versiontuple(b)
        m_l == IF Len(at) > Len(bt) THEN Len(at) ELSE Len(bt)
    IN  TupleCompare(PadZeros(at, m_l), PadZeros(bt, m_l))

Stds(c, cxx) == [l \in {C, CXX} |-> IF l = C THEN c ELSE cxx]

std_default(id) ==
    CASE id = "lcc" -> <<<<None, Stds("gnu18", "gnu++14")>>,
                         <<Some("1.28.0"), Stds("gnu18", "gnu++17")>>>>
      [] id = "gcc" -> <<<<None, Stds("gnu90", "gnu++98")>>,
                         <<Some("5.0.0"), Stds("gnu11", "gnu++98")>>,
                         <<Some("6.0.0"), Stds("gnu11", "gnu++14")>>,
                         <<Some("11.0.0"), Stds("gnu17", "gnu++17")>>,
                         <<Some("15.0.0"), Stds("gnu23", "gnu++17")>>>>
      [] id = "clang" -> <<<<None, Stds("gnu99", "gnu++98")>>,
                           <<Some("3.6.0"), Stds("gnu11", "gnu++98")>>,
                           <<Some("6.0.0"), Stds("gnu11", "gnu++14")>>,
                           <<Some("11.0.0"), Stds("gnu17", "gnu++14")>>,
                           <<Some("16.0.0"), Stds("gnu17", "gnu++17")>>>>

\* a loop that takes a row only for a version above its min-version
RECURSIVE DefaultFromAbove(_, _, _, _)
DefaultFromAbove(data, i, compiler, lang) ==
    IF data[i][1] = None THEN data[1][2][lang]
    ELSE IF version_compare(data[i][1][1], compiler.version) < 0 THEN data[i][2][lang]
    ELSE DefaultFromAbove(data, i - 1, compiler, lang)

\* the while loop of get_default_std, from row i downwards
RECURSIVE DefaultFrom(_, _, _, _)
DefaultFrom(data, i, compiler, lang) ==
    IF data[i][1] = None THEN data[1][2][lang]
    ELSE IF version_compare(data[i][1][1], compiler.version) <= 0 THEN data[i][2][lang]
    ELSE DefaultFrom(data, i - 1, compiler, lang)

\* a lookup that stops at the oldest row of the table
get_default_std_oldest(compiler, lang) == std_default(compiler.id)[1][2][lang]

\* lines 259-268
get_default_std(compiler, lang) ==
    LET data == std_default(compiler.id)
    IN  DefaultFrom(data, Len(data), compiler, lang)

\* __std_ansi[compiler.id].get(lang): None where the table has no entry
get_ansi_std(compiler, lang) ==
    CASE compiler.id = "lcc" -> Some(IF lang = C THEN "c89" ELSE "c++98")
      [] compiler.id = "gcc" -> Some(IF lang = C THEN "c90" ELSE "c++98")
      [] compiler.id = "clang" -> IF lang = C THEN Some("c89") ELSE None

\* the group std of ^-?-std=(?P<std>.*)$ for the arguments used here
StdOfArg(arg) ==
    CASE arg = "-std=c11" -> Some("c11")
      [] arg = "-std=gnu++0x" -> Some("gnu++0x")
      [] arg = "--std=c2y" -> Some("c2y")
      [] OTHER -> None

\* the loop of lines 375-381 from argument i on: None, or the value found
RECURSIVE StdFrom(_, _)
StdFrom(args, i) ==
    IF i > Len(args) THEN None
    ELSE IF StdOfArg(args[i]) # None THEN StdOfArg(args[i])
    ELSE IF args[i] = "--std" THEN Some(args[i + 1])
    ELSE StdFrom(args, i + 1)

\* '++' in s, for the strings used here
HasPlusPlus(s) == s \in {"g++", "gnu++0x", "c++98", "gnu++17", "gnu++14", "gnu++98"}

\* lines 382-386
std_lang_of(std) == IF HasPlusPlus(std) THEN CXX ELSE C

\* a front end that is never taken for a C++ front end
frontend_lang_c(argv0) == C

\* lines 389-393
frontend_lang(argv0) == IF HasPlusPlus(argv0) THEN CXX ELSE C

\* Language.source_exts[ext][1][0]
file_lang(source) == IF SplitExt(source) = ".c" THEN C ELSE CXX

SourceFileCompilerMetadata(lang, standard) == [lang |-> lang, standard |-> standard]

get_source_metadata(cc_command, source) ==
    LET std == StdFrom(cc_command.args, 1)
        ret_lang == IF frontend_lang(cc_command.args[1]) = CXX THEN CXX ELSE file_lang(source)
        kept == IF std # None /\ std_lang_of(std[1]) # ret_lang THEN None ELSE std
        ansi == IF kept = None /\ std = None /\ "-ansi" \in Elems(cc_command.args)
                THEN get_ansi_std(cc_command.compiler, ret_lang)
                ELSE kept
        ret_std == IF ansi = None THEN get_default_std(cc_command.compiler, ret_lang) ELSE ansi[1]
    IN  SourceFileCompilerMetadata(ret_lang, ret_std)

\* PVS.map_std_from_compiler
map_std_from_compiler ==
    {<<"c90", "c90">>, <<"c89", "c90">>, <<"iso9899:1990", "c90">>,
     <<"iso9899:199409", "c90">>, <<"gnu90", "c90">>, <<"gnu89", "c90">>,
     <<"c99", "c99">>, <<"c9x", "c99">>, <<"iso9899:1999", "c99">>,
     <<"iso9899:199x", "c99">>, <<"gnu99", "c99">>, <<"gnu9x", "c99">>,
     <<"c11", "c11">>, <<"c1x", "c11">>, <<"iso9899:2011", "c11">>,
     <<"gnu11", "c11">>, <<"gnu1x", "c11">>,
     <<"c17", "c17">>, <<"c18", "c17">>, <<"iso9899:2017", "c17">>,
     <<"iso9899:2018", "c17">>, <<"gnu17", "c17">>, <<"gnu18", "c17">>,
     <<"c23", "c23">>, <<"c2x", "c23">>, <<"iso9899:2024", "c23">>,
     <<"gnu23", "c23">>, <<"gnu2x", "c23">>,
     <<"c++98", "c++98">>, <<"gnu++98", "c++98">>,
     <<"c++03", "c++03">>, <<"gnu++03", "c++03">>,
     <<"c++11", "c++11">>, <<"c++0x", "c++11">>, <<"gnu++11", "c++11">>,
     <<"gnu++0x", "c++11">>,
     <<"c++14", "c++14">>, <<"c++1y", "c++14">>, <<"gnu++14", "c++14">>,
     <<"gnu++1y", "c++14">>,
     <<"c++17", "c++17">>, <<"c++1z", "c++17">>, <<"gnu++17", "c++17">>,
     <<"gnu++1z", "c++17">>,
     <<"c++20", "c++20">>, <<"c++2a", "c++20">>, <<"gnu++20", "c++20">>,
     <<"gnu++2a", "c++20">>,
     <<"c++23", "c++23">>, <<"c++2b", "c++23">>, <<"gnu++23", "c++23">>,
     <<"gnu++2b", "c++23">>,
     <<"c++2c", "c++26">>, <<"c++26", "c++26">>, <<"gnu++2c", "c++26">>,
     <<"gnu++26", "c++26">>}

\* a mapping that hands every name through as it is
map_std_raw(std) == Some(std)

\* PVS.map_std: dict.get, None for a name the table does not hold
map_std(std) ==
    IF \E p \in map_std_from_compiler : p[1] = std
    THEN Some((CHOOSE p \in map_std_from_compiler : p[1] = std)[2])
    ELSE None

\* list.index(x), counted from 1; 0 when x is not in the list
RECURSIVE IndexFrom(_, _, _)
IndexFrom(seq, x, k) ==
    IF k > Len(seq) THEN 0
    ELSE IF seq[k] = x THEN k
    ELSE IndexFrom(seq, x, k + 1)

Index(seq, x) == IndexFrom(seq, x, 1)

\* the argument that stands for str(preprocessed_result_file); the file it
\* names is the field output of the command
OutArg == "<preprocessed_result_file>"

\* args[a:b] = e for a list (0-based a, b), on a 1-based sequence
SliceAssign(args, a, b, e) ==
    LET n == Len(args)
        lo == IF a > n THEN n ELSE a
        hi == IF b > n THEN n ELSE IF b < lo THEN lo ELSE b
    IN  SubSeq(args, 1, lo) \o e \o SubSeq(args, hi + 1, n)

\* a matcher that never takes the command for a preprocessor call already
NeverPreprocessing(args) == FALSE

\* line 447
AlreadyPreprocessing(args) == "-E" \in Elems(args)

\* lines 437-441: o_idx, counted from 1; 0 for None
OutputIndex(args) == Index(args, "-o")

\* None when the function raises; else the preprocessor command
make_preprocessor_command(cc_command, preprocessed_result_file, source_idx, sources) ==
    LET args == SelectSeq(cc_command.args, LAMBDA arg : arg \notin Elems(sources))
        o_idx == OutputIndex(args)
        e_args == <<"-E", "-o", OutArg>>
        known == Elems(<<cc_command.compiler.id>> \o cc_command.compiler.like)
                    \cap {"lcc", "gcc", "clang"} # {}
    IN  IF ~known \/ AlreadyPreprocessing(args) THEN None
        ELSE Some([cwd |-> cc_command.cwd,
                   compiler |-> cc_command.compiler,
                   executable |-> cc_command.executable,
                   args |-> Append(IF o_idx # 0
                                   THEN SliceAssign(args, o_idx - 1, o_idx + 1, e_args)
                                   ELSE SliceAssign(args, 1, 1, e_args),
                                   sources[source_idx]),
                   output |-> preprocessed_result_file])

(***************************************************************************)
(* OpenFilesFilter.  A path is a sequence of components, as above; the     *)
(* regular expressions look at the text of the path, that is at its        *)
(* components as they are written.                                         *)
(***************************************************************************)
ignore_file_list == {<<"/", "etc", "localtime">>, <<"/", "etc", "ld.so.cache">>}

ignore_dir_list ==
    {<<"/", "dev">>, <<"/", "etc">>, <<"/", "proc">>, <<"/", "run">>, <<"/", "sys">>,
     <<"/", "usr", "lib", "rpm">>, <<"/", "usr", "lib64", "gconv">>,
     <<"/", "usr", "lib", "locale">>, <<"/", "usr", "share", "locale">>,
     <<"/", "usr", "share", "zoneinfo">>}

\* name.split('.') for the file names used here
SplitDots(name) ==
    CASE name = "x.h" -> <<"x", "h">>
      [] name = "stdio.h" -> <<"stdio", "h">>
      [] name = "m.o" -> <<"m", "o">>
      [] name = "libz.so.1" -> <<"libz", "so", "1">>
      [] name = "a.c" -> <<"a", "c">>
      [] OTHER -> <<name>>

Digits == {"0", "1", "2", "6"}

\* the extension patterns: \.so(?:\.\d+)+$ and \.a$ \.o$ \.s$ \.so$
IgnoredExt(name) ==
    LET p == SplitDots(name)
        n == Len(p)
    IN  /\ n >= 2
        /\ \/ p[n] \in {"a", "o", "s", "so"}
           \/ \E k \in 2..(n - 1) : p[k] = "so" /\ \A j \in (k + 1)..n : p[j] \in Digits

IsPrefix(d, p) == Len(d) <= Len(p) /\ SubSeq(p, 1, Len(d)) = d

\* the directory patterns: ^<dir>(?:$|/)
InIgnoredDir(p) == \E d \in ignore_dir_list : IsPrefix(d, p)

allow(path) ==
    /\ path \notin ignore_file_list
    /\ ~(path # <<>> /\ IgnoredExt(path[Len(path)]))
    /\ ~InIgnoredDir(path)

\* the path the kernel resolves: each ".." drops the component before it
RECURSIVE Resolve(_, _)
Resolve(done, rest) ==
    IF rest = <<>> THEN done
    ELSE IF rest[1] = ".."
         THEN Resolve(IF Len(done) > 1 THEN SubSeq(done, 1, Len(done) - 1) ELSE done, Tail(rest))
         ELSE Resolve(Append(done, rest[1]), Tail(rest))

\* Path.exists(), without symbolic links
Exists(path) == Resolve(<<>>, path) \in fs_files

\* flags.split("|") for the flag strings used here
SplitFlags(flags) ==
    CASE flags = "O_RDONLY" -> {"O_RDONLY"}
      [] flags = "O_RDONLY|O_CLOEXEC" -> {"O_RDONLY", "O_CLOEXEC"}
      [] flags = "O_WRONLY|O_CREAT|O_TRUNC" -> {"O_WRONLY", "O_CREAT", "O_TRUNC"}
      [] OTHER -> {flags}

\* SHA-256 of the bytes given to h.update, taken to be free of collisions:
\* the digest stands for the bytes
Sha256(bytes) == bytes

RECURSIVE ArgBytes(_)
ArgBytes(args) ==
    IF args = <<>> THEN <<>> ELSE <<args[1], "\\x00">> \o ArgBytes(Tail(args))

\* lines 1349-1366
cc_hash(command, source) ==
    Sha256(<<command.cwd, "\\x00", command.compiler.id, "\\x00",
             IF command.compiler.like = None THEN "" ELSE command.compiler.like[1],
             "\\x00", command.executable, "\\x00">>
           \o ArgBytes(command.args)
           \o <<"\\x00\\x00", source, "\\x00\\x00">>)

\* lines 1368-1371: preprocessed/<hh>/<hh>/<hash>.i
preprocessed_result_file(command, source) ==
    [dir |-> "preprocessed", name |-> cc_hash(command, source), suffix |-> ".i"]

ResultItem(file, source, command) ==
    [preprocessed_file |-> file, source_file |-> source,
     source_metadata |-> get_source_metadata(command, source), command |-> command]

(***************************************************************************)
(* RpmbuildTracer.do_preprocess_compiler_call, for one CompilerCall.       *)
(***************************************************************************)
ArgTokens == {"-c", "-O2", "-o", "a.out", "-E", "a.c", "b.c"}

RECURSIVE SeqsUpTo(_, _)
SeqsUpTo(S, n) ==
    IF n = 0 THEN {<<>>}
    ELSE LET shorter == SeqsUpTo(S, n - 1)
         IN  shorter \cup {Append(q, x) : q \in {r \in shorter : Len(r) = n - 1}, x \in S}

\* command lines with many shapes of arguments
CallArgvMany == {<<"gcc">> \o tail : tail \in SeqsUpTo(ArgTokens, MaxArgs)}

\* command lines that reach each early return
CallArgvFew ==
    {<<"gcc", "-c", "a.c">>, <<"gcc", "-c", "x.h">>,
     <<"gcc", "-c", "CMakeFiles/3.27.6/CMakeCCompilerId.c">>}

OpenPaths ==
    {<<"x.h">>, <<"/", "usr", "include", "stdio.h">>, <<"/", "etc", "passwd">>,
     <<"..", "etc", "passwd">>, <<"..", "..", "etc", "passwd">>, <<"libz.so.1">>,
     <<"m.o">>}

OpenFlags == {"O_RDONLY", "O_RDONLY|O_CLOEXEC", "O_WRONLY|O_CREAT|O_TRUNC"}

CallOpenFile(path, oflag) ==
    [base |-> RootCwd, args |-> [path |-> path, oflag |-> oflag, mode |-> None], rec |-> <<1, 1>>]

CallOpenFiles == {CallOpenFile(p, f) : p \in OpenPaths, f \in OpenFlags}

\* the files of the build root
Files ==
    {<<"/", "b", "x.h">>, <<"/", "usr", "include", "stdio.h">>, <<"/", "etc", "passwd">>,
     <<"/", "b", "libz.so.1">>, <<"/", "b", "m.o">>}

CallStart(argv, opens) ==
    /\ cc = [pid |-> 1, exitcode |-> Some(0),
             command |-> CompilerCommand(RootCwd, GccId, Gcc, argv),
             open_files |-> opens]
    /\ call_pc = "start"
    /\ of_i = 1
    /\ sources_in_args = <<>>
    /\ src_i = 1
    /\ staged = {}
    /\ executed = <<>>
    /\ ret = <<>>
    /\ returned = None
    /\ call_log = <<>>

\* the single-file build: gcc -O2 -o a.out a.c in /b, one open of /b/a.c
SingleFileArgv == <<"gcc", "-O2", "-o", "a.out", "a.c">>

CallInit ==
    \/ /\ \E argv \in CallArgvMany : CallStart(argv, <<CallOpenFile(<<"x.h">>, "O_RDONLY")>>)
       /\ fs_files = Files
       /\ cwd_exists = TRUE
    \/ /\ \E argv \in CallArgvFew : \E opens \in SeqsUpTo(CallOpenFiles, MaxOpens) :
            CallStart(argv, opens)
       /\ fs_files \in {Files, Files \ {<<"/", "b", "x.h">>}, {}}
       /\ cwd_exists \in BOOLEAN
    \/ /\ CallStart(SingleFileArgv, <<CallOpenFile(<<"/", "b", "a.c">>, "O_RDONLY")>>)
       /\ fs_files = Files \cup {<<"/", "b", "a.c">>}
       /\ cwd_exists = TRUE

CallIdle ==
    /\ cc = None
    /\ fs_files = {}
    /\ cwd_exists = FALSE
    /\ call_pc = "idle"
    /\ of_i = 1
    /\ sources_in_args = <<>>
    /\ src_i = 1
    /\ staged = {}
    /\ executed = <<>>
    /\ ret = <<>>
    /\ returned = None
    /\ call_log = <<>>

\* return []
CallIgnored(msg) ==
    /\ call_log' = Append(call_log, <<"IGNORED", msg>>)
    /\ returned' = Some(<<>>)
    /\ call_pc' = "done"

\* lines 1292-1294
CallIgnoreCwd ==
    /\ call_pc = "start"
    /\ ~cwd_exists
    /\ CallIgnored("cwd not exists")
    /\ UNCHANGED <<cc, fs_files, cwd_exists, of_i, sources_in_args, src_i, staged,
                   executed, ret>>
    /\ UNCHANGED NotCall

\* lines 1298-1301
CallIgnoreNoSources ==
    /\ call_pc = "start"
    /\ cwd_exists
    /\ get_sources_from_args(cc.command) = <<>>
    /\ CallIgnored("not found sources with allowed exts")
    /\ UNCHANGED <<cc, fs_files, cwd_exists, of_i, sources_in_args, src_i, staged,
                   executed, ret>>
    /\ UNCHANGED NotCall

CMakeSources == {"CMakeCCompilerId.c", "CMakeCXXCompilerId.cpp"}

\* lines 1306-1309
CallIgnoreCMake ==
    /\ call_pc = "start"
    /\ cwd_exists
    /\ LET sources == get_sources_from_args(cc.command)
       IN  /\ sources # <<>>
           /\ \E k \in 1..Len(sources) : Basename(sources[k]) \in CMakeSources
           /\ sources_in_args' = sources
    /\ CallIgnored("CMake internal source")
    /\ UNCHANGED <<cc, fs_files, cwd_exists, of_i, src_i, staged, executed, ret>>
    /\ UNCHANGED NotCall

\* lines 1298-1309 passed: the loop over the open files begins
CallBegin ==
    /\ call_pc = "start"
    /\ cwd_exists
    /\ LET sources == get_sources_from_args(cc.command)
       IN  /\ sources # <<>>
           /\ \A k \in 1..Len(sources) : Basename(sources[k]) \notin CMakeSources
           /\ sources_in_args' = sources
    /\ call_pc' = "staging"
    /\ UNCHANGED <<cc, fs_files, cwd_exists, of_i, src_i, staged, executed, ret,
                   returned, call_log>>
    /\ UNCHANGED NotCall

\* line 1314
CopySrc(of) == JoinPath(of.base, of.args.path)

\* line 1315: <output_dir>/root/<copy_src.parts[1:]>
CopyDst(of) == <<"<output_dir>", "root">> \o Tail(CopySrc(of))

\* lines 1318-1328: the three tests an open file has to pass
Stageable(of) ==
    /\ Exists(CopySrc(of))
    /\ allow(CopySrc(of))
    /\ "O_RDONLY" \in SplitFlags(of.args.oflag)

Staging == call_pc = "staging" /\ of_i <= Len(cc.open_files)

\* lines 1318-1328: continue
CallStageSkip ==
    /\ Staging
    /\ ~Stageable(cc.open_files[of_i])
    /\ of_i' = of_i + 1
    /\ UNCHANGED <<cc, fs_files, cwd_exists, call_pc, sources_in_args, src_i, staged,
                   executed, ret, returned, call_log>>
    /\ UNCHANGED NotCall

\* lines 1331-1334: the copy is made
CallStageCopy ==
    /\ Staging
    /\ Stageable(cc.open_files[of_i])
    /\ staged' = staged \cup {[of |-> of_i, src |-> CopySrc(cc.open_files[of_i]),
                               dst |-> CopyDst(cc.open_files[of_i])]}
    /\ of_i' = of_i + 1
    /\ UNCHANGED <<cc, fs_files, cwd_exists, call_pc, sources_in_args, src_i,
                   executed, ret, returned, call_log>>
    /\ UNCHANGED NotCall

\* lines 1335-1336: mkdir or the copy raises, and the exception is dropped
CallStageCopyFails ==
    /\ Staging
    /\ Stageable(cc.open_files[of_i])
    /\ of_i' = of_i + 1
    /\ UNCHANGED <<cc, fs_files, cwd_exists, call_pc, sources_in_args, src_i, staged,
                   executed, ret, returned, call_log>>
    /\ UNCHANGED NotCall

\* line 1340: the loop over the sources begins
CallStagingDone ==
    /\ call_pc = "staging"
    /\ of_i > Len(cc.open_files)
    /\ call_pc' = "sources"
    /\ UNCHANGED <<cc, fs_files, cwd_exists, of_i, sources_in_args, src_i, staged,
                   executed, ret, returned, call_log>>
    /\ UNCHANGED NotCall

Processing == call_pc = "sources" /\ src_i <= Len(sources_in_args)

\* lines 1349-1379 for the current source
PreprocessedCommand ==
    make_preprocessor_command(cc.command,
                              preprocessed_result_file(cc.command, sources_in_args[src_i]),
                              src_i, sources_in_args)

\* lines 1377-1379: make_preprocessor_command raised
CallSourceIgnored ==
    /\ Processing
    /\ PreprocessedCommand = None
    /\ call_log' = Append(call_log, <<"IGNORED", "cat't make proprocessor command">>)
    /\ src_i' = src_i + 1
    /\ UNCHANGED <<cc, fs_files, cwd_exists, call_pc, of_i, sources_in_args, staged,
                   executed, ret, returned>>
    /\ UNCHANGED NotCall

\* lines 1395-1420: the preprocessor ran and returned 0
CallSourceOk ==
    /\ Processing
    /\ PreprocessedCommand # None
    /\ executed' = Append(executed, [idx |-> src_i, command |-> PreprocessedCommand[1]])
    /\ ret' = Append(ret, ResultItem(preprocessed_result_file(cc.command, sources_in_args[src_i]),
                                     sources_in_args[src_i], cc.command))
    /\ call_log' = Append(call_log, <<"PREPROCESSED", "ok">>)
    /\ src_i' = src_i + 1
    /\ UNCHANGED <<cc, fs_files, cwd_exists, call_pc, of_i, sources_in_args, staged,
                   returned>>
    /\ UNCHANGED NotCall

\* lines 1395-1420: the preprocessor ran and did not return 0
CallSourceNonzero ==
    /\ Processing
    /\ PreprocessedCommand # None
    /\ executed' = Append(executed, [idx |-> src_i, command |-> PreprocessedCommand[1]])
    /\ call_log' = Append(call_log, <<"PREPROCESSED", "preprocessor nonzero exit code">>)
    /\ src_i' = src_i + 1
    /\ UNCHANGED <<cc, fs_files, cwd_exists, call_pc, of_i, sources_in_args, staged,
                   ret, returned>>
    /\ UNCHANGED NotCall

\* lines 1395-1399: Popen raises, and nothing catches it
CallSourceRaises ==
    /\ Processing
    /\ PreprocessedCommand # None
    /\ call_pc' = "raised"
    /\ UNCHANGED <<cc, fs_files, cwd_exists, of_i, sources_in_args, src_i, staged,
                   executed, ret, returned, call_log>>
    /\ UNCHANGED NotCall

\* line 1344
CallReturn ==
    /\ call_pc = "sources"
    /\ src_i > Len(sources_in_args)
    /\ returned' = Some(ret)
    /\ call_pc' = "done"
    /\ UNCHANGED <<cc, fs_files, cwd_exists, of_i, sources_in_args, src_i, staged,
                   executed, ret, call_log>>
    /\ UNCHANGED NotCall

CallNext ==
    \/ CallIgnoreCwd
    \/ CallIgnoreNoSources
    \/ CallIgnoreCMake
    \/ CallBegin
    \/ CallStageSkip
    \/ CallStageCopy
    \/ CallStageCopyFails
    \/ CallStagingDone
    \/ CallSourceIgnored
    \/ CallSourceOk
    \/ CallSourceNonzero
    \/ CallSourceRaises
    \/ CallReturn

(***************************************************************************)
(* RpmbuildTracer.__atomic_file_copy, run by the pool workers for one and  *)
(* the same destination.  A worker is a process of its own; shutil.copy2   *)
(* opens the temporary name for writing (creating or truncating it),       *)
(* writes the source chunk by chunk, copies the metadata by name, and the  *)
(* temporary name is then renamed to the destination.                      *)
(***************************************************************************)
NumWorkers == 2    \* processes of the pool
SrcChunks == 2     \* length of the source file, in chunks written
MaxRounds == 2     \* copies of the destination one worker makes

WorkerPids == 1..NumWorkers

copy_dst == <<"x", "h">>

\* a copy whose temporary name is the same for every worker
shared_copy_dst_pp(dst, pid) == Append(dst, "tmp")

\* line 1258: copy_dst.with_suffix(copy_dst.suffix + '.' + str(os.getpid()))
copy_dst_pp(dst, pid) == Append(dst, pid)

Names == {copy_dst} \cup {copy_dst_pp(copy_dst, w) : w \in WorkerPids}

Inodes == WorkerPids \X (1..MaxRounds)

NoFile == [size |-> 0, writers |-> {}, stat |-> FALSE]

CopyInit ==
    /\ links = [n \in Names |-> None]
    /\ inode = [i \in Inodes |-> NoFile]
    /\ worker = [w \in WorkerPids |-> [pc |-> "idle", round |-> 0, fd |-> None, off |-> 0]]

CopyIdle ==
    /\ links = <<>>
    /\ inode = <<>>
    /\ worker = <<>>

\* shutil.copy2 opens the temporary name with mode 'wb'
CopyOpen ==
    \E w \in WorkerPids :
        LET name == copy_dst_pp(copy_dst, w)
            r == worker[w].round + 1
            ino == IF links[name] = None THEN <<w, r>> ELSE links[name][1]
        IN  /\ worker[w].pc = "idle"
            /\ worker[w].round < MaxRounds
            /\ links' = [links EXCEPT ![name] = Some(ino)]
            /\ inode' = [inode EXCEPT ![ino] = NoFile]
            /\ worker' = [worker EXCEPT ![w] = [pc |-> "write", round |-> r,
                                                fd |-> Some(ino), off |-> 0]]
            /\ UNCHANGED NotCopy

\* one chunk is written through the open file
CopyWrite ==
    \E w \in WorkerPids :
        LET ino == worker[w].fd[1]
            off == worker[w].off
        IN  /\ worker[w].pc = "write"
            /\ off < SrcChunks
            /\ inode' = [inode EXCEPT ![ino].size = IF @ > off + 1 THEN @ ELSE off + 1,
                                      ![ino].writers = @ \cup {w}]
            /\ worker' = [worker EXCEPT ![w].off = off + 1]
            /\ UNCHANGED links
            /\ UNCHANGED NotCopy

\* a write raises (no space left): the copy is given up, the caller drops
\* the exception, the temporary file stays as it is
CopyWriteFails ==
    \E w \in WorkerPids :
        /\ worker[w].pc = "write"
        /\ worker[w].off < SrcChunks
        /\ worker' = [worker EXCEPT ![w].pc = "idle", ![w].fd = None, ![w].off = 0]
        /\ UNCHANGED <<links, inode>>
        /\ UNCHANGED NotCopy

\* the file is closed and copystat sets the metadata of the temporary name
CopyStat ==
    \E w \in WorkerPids :
        LET name == copy_dst_pp(copy_dst, w)
        IN  /\ worker[w].pc = "write"
            /\ worker[w].off = SrcChunks
            /\ IF links[name] = None
               THEN /\ worker' = [worker EXCEPT ![w].pc = "idle", ![w].fd = None, ![w].off = 0]
                    /\ UNCHANGED inode
               ELSE /\ inode' = [inode EXCEPT ![links[name][1]].stat = TRUE]
                    /\ worker' = [worker EXCEPT ![w].pc = "rename", ![w].fd = None, ![w].off = 0]
            /\ UNCHANGED links
            /\ UNCHANGED NotCopy

\* line 1260: copy_dst_pp.rename(copy_dst)
CopyRename ==
    \E w \in WorkerPids :
        LET name == copy_dst_pp(copy_dst, w)
        IN  /\ worker[w].pc = "rename"
            /\ links' = IF links[name] = None THEN links
                      ELSE [links EXCEPT ![copy_dst] = links[name], ![name] = None]
            /\ worker' = [worker EXCEPT ![w].pc = "idle"]
            /\ UNCHANGED inode
            /\ UNCHANGED NotCopy

CopyNext ==
    \/ CopyOpen
    \/ CopyWrite
    \/ CopyWriteFails
    \/ CopyStat
    \/ CopyRename

(***************************************************************************)
(* One manifest row from its making (get_source_metadata, line 1415) to    *)
(* the analyzer that reads it (build-tracer-analyzer-pvs.py).              *)
(***************************************************************************)
MaxFlags == 2      \* arguments between argv[0] and the source

GccOld == [id |-> "gcc", like |-> None, version |-> "4.8.5"]
Clang == [id |-> "clang", like |-> None, version |-> "15.0.7"]
Lcc == [id |-> "lcc", like |-> Some("gcc"), version |-> "1.29.0"]

MetaCompilers == {GccId, GccOld, Clang, Lcc}

MetaFlags == {"-std=c11", "-std=gnu++0x", "--std=c2y", "--std", "c9x", "-ansi"}

MetaCommands ==
    {CompilerCommand(RootCwd, c, Gcc, <<argv0>> \o flags \o <<source>>) :
        c \in MetaCompilers, argv0 \in {"gcc", "g++"},
        flags \in SeqsUpTo(MetaFlags, MaxFlags), source \in {"a.c", "x.cpp"}}

MetaInit ==
    /\ meta_command \in MetaCommands
    /\ meta_source = meta_command.args[Len(meta_command.args)]
    /\ meta_pc = "start"
    /\ meta_row = None
    /\ pvs_studio_args = <<>>

MetaIdle ==
    /\ meta_command = None
    /\ meta_source = ""
    /\ meta_pc = "idle"
    /\ meta_row = None
    /\ pvs_studio_args = <<>>

\* lines 1411-1417: the row is made; the encoder writes the fields as they are
MetaRow ==
    /\ meta_pc = "start"
    /\ meta_row' = Some(get_source_metadata(meta_command, meta_source))
    /\ meta_pc' = "row"
    /\ UNCHANGED <<meta_command, meta_source, pvs_studio_args>>
    /\ UNCHANGED NotMeta

\* PVS.map_lang_from_compiler
map_lang(lang) == IF lang = C THEN "C" ELSE "C++"

\* analyzer lines 315-319: --language always, --std when map_std knows the name
MetaAnalyze ==
    /\ meta_pc = "row"
    /\ pvs_studio_args' =
            <<<<"--language=", map_lang(meta_row[1].lang)>>>>
            \o (IF map_std(meta_row[1].standard) # None
                THEN <<<<"--std=", map_std(meta_row[1].standard)[1]>>>>
                ELSE <<>>)
    /\ meta_pc' = "analyzed"
    /\ UNCHANGED <<meta_command, meta_source, meta_row>>
    /\ UNCHANGED NotMeta

MetaNext ==
    \/ MetaRow
    \/ MetaAnalyze

(***************************************************************************)
(* StraceData.__run: the trace files are parsed in the order the glob      *)
(* yields them, stored by PID, and the root is the minimum by ts_start.    *)
(***************************************************************************)
MaxTraces == 3     \* trace files of one run
MaxTs == 2         \* timestamps 1..MaxTs

TracePids == 1..MaxTraces

\* what __run reads of a ProcTrace: ts_start is None for a file without a
\* line the parser knows
RunTraces == [pid : TracePids, ts_start : {None} \cup {Some(t) : t \in 1..MaxTs}]

\* the glob yields each file once, in no particular order
RunFileLists ==
    {fs \in SeqsUpTo(RunTraces, MaxTraces) :
        \A i, j \in 1..Len(fs) : i # j => fs[i].pid # fs[j].pid}

RunInit ==
    /\ run_files \in RunFileLists
    /\ run_parallel \in 1..MaxParallel
    /\ run_proc_map = <<>>
    /\ run_root_pid = None
    /\ run_pc = "load"

RunIdle ==
    /\ run_files = <<>>
    /\ run_parallel = 0
    /\ run_proc_map = <<>>
    /\ run_root_pid = None
    /\ run_pc = "idle"

\* lines 845-847: one file is parsed and stored
RunLoadSerial ==
    /\ run_pc = "load"
    /\ run_parallel <= 1
    /\ Len(run_proc_map) < Len(run_files)
    /\ run_proc_map' = Append(run_proc_map, run_files[Len(run_proc_map) + 1])
    /\ UNCHANGED <<run_files, run_parallel, run_root_pid, run_pc>>
    /\ UNCHANGED NotRun

RunLoadSerialEnd ==
    /\ run_pc = "load"
    /\ run_parallel <= 1
    /\ Len(run_proc_map) = Len(run_files)
    /\ run_pc' = "loaded"
    /\ UNCHANGED <<run_files, run_parallel, run_proc_map, run_root_pid>>
    /\ UNCHANGED NotRun

\* lines 840-844: pool.map returns the traces in the order of the files
RunLoadPool ==
    /\ run_pc = "load"
    /\ run_parallel > 1
    /\ run_proc_map' = run_files
    /\ run_pc' = "loaded"
    /\ UNCHANGED <<run_files, run_parallel, run_root_pid>>
    /\ UNCHANGED NotRun

\* lines 849-850
RunEmpty ==
    /\ run_pc = "loaded"
    /\ Len(run_proc_map) = 0
    /\ run_pc' = "ValueError"
    /\ UNCHANGED <<run_files, run_parallel, run_proc_map, run_root_pid>>
    /\ UNCHANGED NotRun

\* min(values, key = ts_start): the first value is kept until a later one
\* compares less; None against a number raises TypeError
RECURSIVE MinFrom(_, _, _)
MinFrom(values, i, best) ==
    IF i > Len(values) THEN Some(best)
    ELSE IF values[i].ts_start = None \/ best.ts_start = None THEN None
    ELSE IF values[i].ts_start[1] < best.ts_start[1] THEN MinFrom(values, i + 1, values[i])
    ELSE MinFrom(values, i + 1, best)

\* the builtin min over a sequence that is not empty
Min(values) == MinFrom(values, 2, values[1])

\* line 853
RunSelectRoot ==
    /\ run_pc = "loaded"
    /\ Len(run_proc_map) > 0
    /\ IF Min(run_proc_map) = None
       THEN /\ run_pc' = "TypeError"
            /\ run_root_pid' = run_root_pid
       ELSE /\ run_pc' = "done"
            /\ run_root_pid' = Some(Min(run_proc_map)[1].pid)
    /\ UNCHANGED <<run_files, run_parallel, run_proc_map>>
    /\ UNCHANGED NotRun

RunNext ==
    \/ RunLoadSerial
    \/ RunLoadSerialEnd
    \/ RunLoadPool
    \/ RunEmpty
    \/ RunSelectRoot

(***************************************************************************)
(* CompilerMatcher.match with the class-level caches.  What the --version  *)
(* probe of an executable gives is up to the file system, so each outcome  *)
(* is an action of its own.                                                *)
(***************************************************************************)
MaxMatchCalls == 4     \* calls of match in one run

IdTuples == {<<Gcc, "gcc">>, <<Gcc, "cc">>, <<ClangExe, "clang">>, <<Cc1, "cc1">>}

\* what __id_version_regex can make of the first line of the output
ProbeIds == {GccId, Lcc}

MatchInit ==
    /\ id_version_ncache = {}
    /\ id_version_cache = {}
    /\ match_log = <<>>
    /\ match_pc = "run"

MatchIdle ==
    /\ id_version_ncache = {}
    /\ id_version_cache = {}
    /\ match_log = <<>>
    /\ match_pc = "idle"

Cached(id_tuple) == \E e \in id_version_cache : e[1] = id_tuple

CacheGet(id_tuple) == (CHOOSE e \in id_version_cache : e[1] = id_tuple)[2]

\* a negative cache that forgets what it is told
ncache_forget(ncache, id_tuple) == ncache

\* __id_version_ncache.add(id_tuple)
ncache_add(ncache, id_tuple) == ncache \cup {id_tuple}

\* __id_version_cache[id_tuple] = cid
CacheSet(id_tuple, cid) ==
    {e \in id_version_cache : e[1] # id_tuple} \cup {<<id_tuple, cid>>}

MatchCall(id_tuple) == match_pc = "run" /\ Len(match_log) < MaxMatchCalls /\ id_tuple \in IdTuples

MatchReturn(id_tuple, result, probe) ==
    /\ match_log' = Append(match_log, [id_tuple |-> id_tuple, result |-> result, probe |-> probe])
    /\ UNCHANGED NotMatch

\* the probe is reached: neither cache holds the pair, the path passes
Probing(id_tuple) ==
    /\ MatchCall(id_tuple)
    /\ id_tuple \notin id_version_ncache
    /\ ~Cached(id_tuple)
    /\ prefilter_by_path(id_tuple[1])

\* lines 322-324
MatchNegativeHit ==
    \E id_tuple \in IdTuples :
        /\ MatchCall(id_tuple)
        /\ id_tuple \in id_version_ncache
        /\ MatchReturn(id_tuple, None, "")
        /\ UNCHANGED <<id_version_ncache, id_version_cache, match_pc>>

\* lines 326-327
MatchPositiveHit ==
    \E id_tuple \in IdTuples :
        /\ MatchCall(id_tuple)
        /\ id_tuple \notin id_version_ncache
        /\ Cached(id_tuple)
        /\ MatchReturn(id_tuple, Some(CacheGet(id_tuple)), "")
        /\ UNCHANGED <<id_version_ncache, id_version_cache, match_pc>>

\* lines 329-331
MatchPrefilterMiss ==
    \E id_tuple \in IdTuples :
        /\ MatchCall(id_tuple)
        /\ id_tuple \notin id_version_ncache
        /\ ~Cached(id_tuple)
        /\ ~prefilter_by_path(id_tuple[1])
        /\ id_version_ncache' = ncache_add(id_version_ncache, id_tuple)
        /\ MatchReturn(id_tuple, None, "")
        /\ UNCHANGED <<id_version_cache, match_pc>>

\* lines 335-340: subprocess.run raises
MatchProbeRaises ==
    \E id_tuple \in IdTuples :
        /\ Probing(id_tuple)
        /\ id_version_ncache' = ncache_add(id_version_ncache, id_tuple)
        /\ MatchReturn(id_tuple, None, "raised")
        /\ UNCHANGED <<id_version_cache, match_pc>>

\* lines 342-344: the probe ends with a return code that is not 0
MatchProbeNonzero ==
    \E id_tuple \in IdTuples :
        /\ Probing(id_tuple)
        /\ id_version_ncache' = ncache_add(id_version_ncache, id_tuple)
        /\ MatchReturn(id_tuple, None, "nonzero")
        /\ UNCHANGED <<id_version_cache, match_pc>>

\* lines 346-351: the first line of the output names a compiler
MatchProbeIdentified ==
    \E id_tuple \in IdTuples : \E cid \in ProbeIds :
        /\ Probing(id_tuple)
        /\ id_version_cache' = CacheSet(id_tuple, cid)
        /\ MatchReturn(id_tuple, Some(cid), "identified")
        /\ UNCHANGED <<id_version_ncache, match_pc>>

\* lines 346-354: the first line of the output names no compiler
MatchProbeUnknown ==
    \E id_tuple \in IdTuples :
        /\ Probing(id_tuple)
        /\ id_version_ncache' = ncache_add(id_version_ncache, id_tuple)
        /\ MatchReturn(id_tuple, None, "unknown")
        /\ UNCHANGED <<id_version_cache, match_pc>>

\* lines 346-348: return code 0 and no output at all; stdout_lines[0]
\* raises IndexError, which nothing catches: the run ends
MatchProbeEmpty ==
    \E id_tuple \in IdTuples :
        /\ Probing(id_tuple)
        /\ match_pc' = "IndexError"
        /\ match_log' = Append(match_log, [id_tuple |-> id_tuple, result |-> None, probe |-> "no output"])
        /\ UNCHANGED <<id_version_ncache, id_version_cache>>
        /\ UNCHANGED NotMatch

MatchNext ==
    \/ MatchNegativeHit
    \/ MatchPositiveHit
    \/ MatchPrefilterMiss
    \/ MatchProbeRaises
    \/ MatchProbeNonzero
    \/ MatchProbeIdentified
    \/ MatchProbeUnknown
    \/ MatchProbeEmpty

(***************************************************************************)
(* RpmbuildTracer.__do_rpmbuild: the arguments handed to the traced build. *)
(***************************************************************************)
MaxBuildArgs == 3     \* arguments of the build tool

BuildArgTokens == {"--clean", "--noclean", "-ba", "pkg.spec"}

\* a comprehension that replaces the first --clean only
replace_first_clean(args) ==
    [i \in 1..Len(args) |->
        IF args[i] = "--clean" /\ \A j \in 1..(i - 1) : args[j] # "--clean"
        THEN "--noclean" ELSE args[i]]

\* line 1176: ['--noclean' if '--clean' == x else x for x in args]
replace_clean(args) ==
    [i \in 1..Len(args) |-> IF args[i] = "--clean" THEN "--noclean" ELSE args[i]]

\* lines 1172-1178
noclean_args(args) ==
    LET replaced == IF "--clean" \in Elems(args) THEN replace_clean(args) ELSE args
    IN  IF "--noclean" \notin Elems(replaced) THEN <<"--noclean">> \o replaced ELSE replaced

BuildArgsInit ==
    /\ build_args \in SeqsUpTo(BuildArgTokens, MaxBuildArgs)
    /\ rpmbuild_args_strace = None
    /\ run_command = None
    /\ build_pc = "start"

BuildArgsIdle ==
    /\ build_args = <<>>
    /\ rpmbuild_args_strace = None
    /\ run_command = None
    /\ build_pc = "idle"

\* lines 1172-1178
BuildArgsRewrite ==
    /\ build_pc = "start"
    /\ rpmbuild_args_strace' = Some(noclean_args(build_args))
    /\ build_pc' = "args"
    /\ UNCHANGED <<build_args, run_command>>
    /\ UNCHANGED NotBuildArgs

\* line 1184: strace, its arguments, the build tool, the rewritten arguments
BuildArgsCommand ==
    /\ build_pc = "args"
    /\ run_command' = Some(<<"strace", "strace_args", "rpmbuild">> \o rpmbuild_args_strace[1])
    /\ build_pc' = "command"
    /\ UNCHANGED <<build_args, rpmbuild_args_strace>>
    /\ UNCHANGED NotBuildArgs

BuildArgsNext ==
    \/ BuildArgsRewrite
    \/ BuildArgsCommand

(***************************************************************************)
(* StraceParser.parse_fd: one trace file, line by line.  A line is what    *)
(* regex_line makes of it: no match, killed by, exited with, or a syscall  *)
(* with its name and return value; the time stamp is the decimal text.     *)
(***************************************************************************)
MaxLines == 3      \* lines of one trace file
MaxStamp == 3      \* time stamps 1..MaxStamp, as written in the file

Stamps == 1..MaxStamp

\* float(m.group('timestamp')): the nearest double, which two stamps that
\* differ in the last digits share
Float(t) == (t + 1) \div 2

Line(kind, ts, name, returnvalue) ==
    [kind |-> kind, ts |-> ts, name |-> name, returnvalue |-> returnvalue]

TraceLines ==
    {Line("nomatch", 1, "", 0)}
    \cup {Line("killedby", t, "SIGKILL", 0) : t \in Stamps}
    \cup {Line("exitcode", t, "", 0) : t \in Stamps}
    \cup {Line("syscall", t, "open", rv) : t \in Stamps, rv \in {0 - 1, 3}}
    \cup {Line("syscall", 1, "execveat", 0)}

\* ProcTrace(pid) with its defaults
ProcTrace ==
    [ts_start |-> None, ts_end |-> None, exitcode |-> None, killedby |-> None,
     syscall |-> <<>>]

ParseInit ==
    /\ parse_lines \in SeqsUpTo(TraceLines, MaxLines)
    /\ parse_i = 1
    /\ proc = ProcTrace
    /\ parse_pc = "lines"

ParseIdle ==
    /\ parse_lines = <<>>
    /\ parse_i = 0
    /\ proc = ProcTrace
    /\ parse_pc = "idle"

ThisLine == parse_lines[parse_i]

AtLine(kind) ==
    /\ parse_pc = "lines"
    /\ parse_i <= Len(parse_lines)
    /\ ThisLine.kind = kind

MinOf(a, b) == IF a <= b THEN a ELSE b
MaxOf(a, b) == IF a >= b THEN a ELSE b

\* lines 645-648
Stamped(p, ts) ==
    [p EXCEPT !.ts_start = IF @ = None THEN Some(ts) ELSE Some(MinOf(@[1], ts)),
              !.ts_end = IF @ = None THEN Some(ts) ELSE Some(MaxOf(@[1], ts))]

\* a filter that lets every record pass
syscall_allow_all(sc) == TRUE

\* SysCallFilter.allow
syscall_allow(sc) == sc.returnvalue >= 0

\* lines 641-643: the line does not match regex_line
ParseSkip ==
    /\ AtLine("nomatch")
    /\ parse_i' = parse_i + 1
    /\ UNCHANGED <<parse_lines, proc, parse_pc>>
    /\ UNCHANGED NotParse

\* lines 650-653
ParseKilled ==
    /\ AtLine("killedby")
    /\ proc' = [Stamped(proc, Float(ThisLine.ts)) EXCEPT !.killedby = Some(ThisLine.name)]
    /\ parse_i' = parse_i + 1
    /\ UNCHANGED <<parse_lines, parse_pc>>
    /\ UNCHANGED NotParse

\* lines 655-658
ParseExited ==
    /\ AtLine("exitcode")
    /\ proc' = [Stamped(proc, Float(ThisLine.ts)) EXCEPT !.exitcode = Some(ThisLine.returnvalue)]
    /\ parse_i' = parse_i + 1
    /\ UNCHANGED <<parse_lines, parse_pc>>
    /\ UNCHANGED NotParse

\* SysCallEntity(v_timestamp, v_syscall, int(v_returnvalue))
ParsedSyscall(line) ==
    [ts |-> Float(line.ts), name |-> line.name, returnvalue |-> line.returnvalue]

\* lines 667-807: a syscall line whose record passes the filter
ParseSyscallStored ==
    /\ AtLine("syscall")
    /\ ThisLine.name # "execveat"
    /\ syscall_allow(ParsedSyscall(ThisLine))
    /\ proc' = [Stamped(proc, Float(ThisLine.ts)) EXCEPT
                    !.syscall = Append(@, ParsedSyscall(ThisLine))]
    /\ parse_i' = parse_i + 1
    /\ UNCHANGED <<parse_lines, parse_pc>>
    /\ UNCHANGED NotParse

\* lines 667-807: a syscall line whose record the filter refuses
ParseSyscallDropped ==
    /\ AtLine("syscall")
    /\ ThisLine.name # "execveat"
    /\ ~syscall_allow(ParsedSyscall(ThisLine))
    /\ proc' = Stamped(proc, Float(ThisLine.ts))
    /\ parse_i' = parse_i + 1
    /\ UNCHANGED <<parse_lines, parse_pc>>
    /\ UNCHANGED NotParse

\* a parser that passes over an execveat line as over a line it does not know
ParseExecveatSkipped ==
    /\ AtLine("syscall")
    /\ ThisLine.name = "execveat"
    /\ proc' = Stamped(proc, Float(ThisLine.ts))
    /\ parse_i' = parse_i + 1
    /\ UNCHANGED <<parse_lines, parse_pc>>
    /\ UNCHANGED NotParse

\* lines 727-729: execveat is not implemented; no ProcTrace is returned
ParseExecveat ==
    /\ AtLine("syscall")
    /\ ThisLine.name = "execveat"
    /\ proc' = Stamped(proc, Float(ThisLine.ts))
    /\ parse_pc' = "NotImplementedError"
    /\ UNCHANGED <<parse_lines, parse_i>>
    /\ UNCHANGED NotParse

\* list.sort(key = ts) is stable: a record goes behind the records that
\* are not later than it
RECURSIVE Insert(_, _)
Insert(sorted, sc) ==
    IF sorted = <<>> THEN <<sc>>
    ELSE IF sorted[Len(sorted)].ts <= sc.ts THEN Append(sorted, sc)
    ELSE Append(Insert(SubSeq(sorted, 1, Len(sorted) - 1), sc), sorted[Len(sorted)])

RECURSIVE SortedUpTo(_, _)
SortedUpTo(s, n) == IF n = 0 THEN <<>> ELSE Insert(SortedUpTo(s, n - 1), s[n])

\* a sort that leaves the list as it is
sort_none(s) == s

\* proc.syscall.sort(key=lambda v: v.ts)
sort_by_ts(s) == SortedUpTo(s, Len(s))

\* lines 811-812
ParseEnd ==
    /\ parse_pc = "lines"
    /\ parse_i > Len(parse_lines)
    /\ proc' = [proc EXCEPT !.syscall = sort_by_ts(@)]
    /\ parse_pc' = "done"
    /\ UNCHANGED <<parse_lines, parse_i>>
    /\ UNCHANGED NotParse

ParseNext ==
    \/ ParseSkip
    \/ ParseKilled
    \/ ParseExited
    \/ ParseSyscallStored
    \/ ParseSyscallDropped
    \/ ParseExecveat
    \/ ParseEnd

(***************************************************************************)
(* CompilerMatcher.version_compare and get_default_std on version strings. *)
(***************************************************************************)
VersionStrings ==
    {"1", "1.0", "2", "1.3", "1.28", "1.28.0", "1.28.0.0", "1.28.1", "1.028", "1.29.0",
     "4.8.5", "4.9.0", "5.0.0", "5.0.1", "5.9.9", "6.0.0", "10.2.1", "11.0.0", "11.5.0",
     "14.2.0", "15.0.0", "15.0.1"}

\* v + ".0" where the result is one of the strings above
HasDotZero(v) == v \in {"1", "1.28", "1.28.0"}

DotZero(v) ==
    CASE v = "1" -> "1.0"
      [] v = "1.28" -> "1.28.0"
      [] v = "1.28.0" -> "1.28.0.0"

VersionInit ==
    /\ ver_in \in [{"a", "b", "c"} -> VersionStrings]
    /\ ver_cmp = None
    /\ ver_pad = None
    /\ ver_std = None
    /\ ver_pc = "start"

VersionIdle ==
    /\ ver_in = <<>>
    /\ ver_cmp = None
    /\ ver_pad = None
    /\ ver_std = None
    /\ ver_pc = "idle"

\* version_compare on every ordered pair of the three strings
VersionCompare ==
    /\ ver_pc = "start"
    /\ ver_cmp' = Some([x \in {"a", "b", "c"} |->
                        [y \in {"a", "b", "c"} |-> version_compare(ver_in[x], ver_in[y])]])
    /\ ver_pc' = "compared"
    /\ UNCHANGED <<ver_in, ver_pad, ver_std>>
    /\ UNCHANGED NotVersion

\* version_compare with one operand padded by ".0"
VersionComparePadded ==
    /\ ver_pc = "compared"
    /\ HasDotZero(ver_in["a"]) \/ HasDotZero(ver_in["b"])
    /\ ver_pad' = Some([left |-> IF HasDotZero(ver_in["a"])
                                 THEN Some(version_compare(DotZero(ver_in["a"]), ver_in["b"]))
                                 ELSE None,
                        right |-> IF HasDotZero(ver_in["b"])
                                  THEN Some(version_compare(ver_in["a"], DotZero(ver_in["b"])))
                                  ELSE None])
    /\ ver_pc' = "padded"
    /\ UNCHANGED <<ver_in, ver_cmp, ver_std>>
    /\ UNCHANGED NotVersion

\* get_default_std of a gcc of version a, for both languages
VersionDefaultStd ==
    /\ ver_pc = "compared"
    /\ ver_std' = Some([l \in {C, CXX} |->
                        get_default_std([id |-> "gcc", like |-> None, version |-> ver_in["a"]], l)])
    /\ ver_pc' = "std"
    /\ UNCHANGED <<ver_in, ver_cmp, ver_pad>>
    /\ UNCHANGED NotVersion

VersionNext ==
    \/ VersionCompare
    \/ VersionComparePadded
    \/ VersionDefaultStd

(***************************************************************************)
(* Specifications.                                                         *)
(***************************************************************************)
InitWalk == WalkInit /\ PrefilterIdle /\ MainIdle /\ CallIdle /\ CopyIdle /\ MetaIdle /\ RunIdle /\ MatchIdle /\ BuildArgsIdle /\ ParseIdle /\ VersionIdle
SpecWalk == InitWalk /\ [][WalkNext]_vars

InitWalkPaths == WalkPathsInit /\ PrefilterIdle /\ MainIdle /\ CallIdle /\ CopyIdle /\ MetaIdle /\ RunIdle /\ MatchIdle /\ BuildArgsIdle /\ ParseIdle /\ VersionIdle
SpecWalkPaths == InitWalkPaths /\ [][WalkNext]_vars

InitPrefilter == PrefilterInit /\ WalkIdle /\ MainIdle /\ CallIdle /\ CopyIdle /\ MetaIdle /\ RunIdle /\ MatchIdle /\ BuildArgsIdle /\ ParseIdle /\ VersionIdle
SpecPrefilter == InitPrefilter /\ [][PrefilterNext]_vars

InitMain == MainInit /\ WalkIdle /\ PrefilterIdle /\ CallIdle /\ CopyIdle /\ MetaIdle /\ RunIdle /\ MatchIdle /\ BuildArgsIdle /\ ParseIdle /\ VersionIdle
SpecMain == InitMain /\ [][MainNext]_vars

InitCall == CallInit /\ WalkIdle /\ PrefilterIdle /\ MainIdle /\ CopyIdle /\ MetaIdle /\ RunIdle /\ MatchIdle /\ BuildArgsIdle /\ ParseIdle /\ VersionIdle
SpecCall == InitCall /\ [][CallNext]_vars

InitCopy == CopyInit /\ WalkIdle /\ PrefilterIdle /\ MainIdle /\ CallIdle /\ MetaIdle /\ RunIdle /\ MatchIdle /\ BuildArgsIdle /\ ParseIdle /\ VersionIdle
SpecCopy == InitCopy /\ [][CopyNext]_vars

InitMeta == MetaInit /\ WalkIdle /\ PrefilterIdle /\ MainIdle /\ CallIdle /\ CopyIdle /\ RunIdle /\ MatchIdle /\ BuildArgsIdle /\ ParseIdle /\ VersionIdle
SpecMeta == InitMeta /\ [][MetaNext]_vars

InitRun == RunInit /\ WalkIdle /\ PrefilterIdle /\ MainIdle /\ CallIdle /\ CopyIdle /\ MetaIdle /\ MatchIdle /\ BuildArgsIdle /\ ParseIdle /\ VersionIdle
SpecRun == InitRun /\ [][RunNext]_vars

InitMatch == MatchInit /\ WalkIdle /\ PrefilterIdle /\ MainIdle /\ CallIdle /\ CopyIdle /\ MetaIdle /\ RunIdle /\ BuildArgsIdle /\ ParseIdle /\ VersionIdle
SpecMatch == InitMatch /\ [][MatchNext]_vars

InitBuildArgs == BuildArgsInit /\ WalkIdle /\ PrefilterIdle /\ MainIdle /\ CallIdle /\ CopyIdle /\ MetaIdle /\ RunIdle /\ MatchIdle /\ ParseIdle /\ VersionIdle
SpecBuildArgs == InitBuildArgs /\ [][BuildArgsNext]_vars

InitParse == ParseInit /\ WalkIdle /\ PrefilterIdle /\ MainIdle /\ CallIdle /\ CopyIdle /\ MetaIdle /\ RunIdle /\ MatchIdle /\ BuildArgsIdle /\ VersionIdle
SpecParse == InitParse /\ [][ParseNext]_vars

InitVersion == VersionInit /\ WalkIdle /\ PrefilterIdle /\ MainIdle /\ CallIdle /\ CopyIdle /\ MetaIdle /\ RunIdle /\ MatchIdle /\ BuildArgsIdle /\ ParseIdle
SpecVersion == InitVersion /\ [][VersionNext]_vars

(***************************************************************************)
(* Properties of the walker.                                               *)
(***************************************************************************)
\* the records of the open files attributed to the n-th CompilerCall
AttributedRecords(n) ==
    {compiler_calls[n].open_files[k].rec : k \in 1..Len(compiler_calls[n].open_files)}

\* the frames of the current branch that have opened a CompilerCall
CallFrames == {k \in 1..Len(stack) : stack[k].compiler_call # None}

\* C1: no open/openat/openat2 record is attributed to more than one
\* CompilerCall of the walker's output.
C1_OpenInOneCallOnly ==
    \A a, b \in 1..Len(compiler_calls) :
        a # b => AttributedRecords(a) \cap AttributedRecords(b) = {}

\* C1, the attribution along one branch: open files are only accumulated
\* inside a compiler, and every frame that holds some lies at or below the
\* one frame of the branch that opened a CompilerCall.
C1_HeldOpensHaveACall ==
    \A k \in 1..Len(stack) :
        stack[k].open_files # <<>> =>
            /\ stack[k].is_compiler_internals
            /\ \E j \in CallFrames : j <= k

\* C2: on a branch at most one CompilerCall is opened: no two frames of the
\* stack hold a call, a frame entered inside a compiler never opens one, and
\* a call once opened by a frame is never replaced by a later execve.
C2_OneCallPerBranch ==
    /\ [](Cardinality(CallFrames) <= 1)
    /\ [][\A k \in 1..Len(stack) :
            (k <= Len(stack') /\ stack[k].is_compiler_internals)
                => stack'[k].compiler_call = stack[k].compiler_call]_vars

\* a process forked inside a compiler has just executed gcc itself and has
\* opened no call
C2_Witness ==
    /\ walk_status = "walking"
    /\ Len(stack) >= 2
    /\ Top.i > 1
    /\ Top.i - 1 <= Len(syscall[Top.pid])
    /\ syscall[Top.pid][Top.i - 1].name = "execve"
    /\ match(syscall[Top.pid][Top.i - 1].executable, <<>>) # None
    /\ Top.is_compiler_internals
    /\ Top.compiler_call = None
    /\ Cardinality(CallFrames) = 1

(***************************************************************************)
(* Properties of the prefilter.                                            *)
(***************************************************************************)
\* how often the command of the n-th raw call occurs in the raw list
Multiplicity(n) ==
    Cardinality({k \in 1..Len(raw_calls) :
        /\ raw_calls[k].command.cwd = raw_calls[n].command.cwd
        /\ raw_calls[k].command.compiler = raw_calls[n].command.compiler
        /\ raw_calls[k].command.executable = raw_calls[n].command.executable
        /\ raw_calls[k].command.args = raw_calls[n].command.args})

Survives(n) ==
    /\ raw_calls[n].exitcode = Some(0)
    /\ Len(raw_calls[n].open_files) >= 1
    /\ Multiplicity(n) = 1

\* the raw calls 1..n that survive, in their order
RECURSIVE SurvivorsUpTo(_)
SurvivorsUpTo(n) ==
    IF n = 0 THEN <<>>
    ELSE IF Survives(n) THEN Append(SurvivorsUpTo(n - 1), raw_calls[n])
    ELSE SurvivorsUpTo(n - 1)

\* C3: the calls yielded are exactly the raw calls with exit code 0, at
\* least one open file and a command tuple that occurs once in the whole raw
\* list, in their original order; every copy of a repeated tuple is dropped.
C3_PrefilterSurvivors ==
    /\ pf_pc = "filter" => yielded = SurvivorsUpTo(pf_i - 1)
    /\ pf_pc = "done" => yielded = SurvivorsUpTo(Len(raw_calls))

\* two identical successful invocations with open files, both dropped, next
\* to a call that survives
C3_Witness ==
    /\ pf_pc = "done"
    /\ Len(yielded) = 1
    /\ \E a, b \in 1..Len(raw_calls) :
        /\ a # b
        /\ raw_calls[a].command = raw_calls[b].command
        /\ raw_calls[a].exitcode = Some(0) /\ raw_calls[b].exitcode = Some(0)
        /\ raw_calls[a].open_files # <<>> /\ raw_calls[b].open_files # <<>>
        /\ \A k \in 1..Len(yielded) : yielded[k].pid \notin {a, b}

(***************************************************************************)
(* Claims about RpmbuildTracer.main.                                       *)
(***************************************************************************)
BuildReturnedNonZero == rpmbuild_returncode # None /\ rpmbuild_returncode # Some(0)

NothingAfterTheBuild ==
    /\ main_pc \in {"check", "exited"}
    /\ "PARSE-STRACE-START" \notin Elems(stdout)
    /\ work = <<>>
    /\ result_json = None
    /\ result_writes = 0

\* C4 as stated: when the return code of the build tool is not 0, whether
\* the build ran in this invocation or the code was read back from
\* rpmbuild.returncode, the driver exits with that very code and never
\* reaches trace parsing, preprocessing or the writing of result.json.
C4_ExitsWithBuildCode ==
    BuildReturnedNonZero =>
        /\ NothingAfterTheBuild
        /\ main_pc = "exited" => exit_code = rpmbuild_returncode

\* C4, amended: when the return code of the build tool is not 0, the driver
\* never reaches trace parsing, preprocessing or the writing of result.json,
\* and it exits with a status that is not 0: the return code modulo 256,
\* which is the code itself for 1..255 and 256 - N for a build killed by
\* signal N.
C4_BuildFailureEndsTheRun ==
    BuildReturnedNonZero =>
        /\ NothingAfterTheBuild
        /\ main_pc = "exited" =>
            /\ exit_code = Some(rpmbuild_returncode[1] % 256)
            /\ exit_code # Some(0)
            /\ rpmbuild_returncode[1] \in 1..255 => exit_code = rpmbuild_returncode

\* the rpmbuild stage was skipped, the code of a build killed by signal 9
\* was read back, and the driver has exited with status 247
C4_Witness ==
    /\ main_pc = "exited"
    /\ IsBinaryBuild(rpmbuild_args)
    /\ ~stage.rpmbuild
    /\ rpmbuild_returncode = Some(0 - 9)
    /\ exit_code = Some(247)
    /\ exception = None

ManifestWrittenOnce ==
    /\ result_writes = 1
    /\ result_json = Some(Results(Len(work)))
    /\ \A i \in 1..Len(work) : work[i].state = "done"

TracedWithPreprocessing == IsBinaryBuild(rpmbuild_args) /\ stage.preprocessing

KeepNonSources(seq) == SelectSeq(seq, LAMBDA a : a \notin Elems(sources_in_args))

\* the shape C6 gives to the preprocessor command of the source e.idx
PreprocessorShape(e) ==
    LET argv == cc.command.args
        out == e.command.args
        cur == sources_in_args[e.idx]
        o == Index(argv, "-o")
        e_args == <<"-E", "-o", OutArg>>
    IN  /\ out[1] = argv[1]
        /\ out[Len(out)] = cur
        /\ \A j \in 1..(Len(out) - 1) : out[j] \notin Elems(sources_in_args)
        /\ out = IF o = 0
                 THEN <<argv[1]>> \o e_args \o KeepNonSources(Tail(argv)) \o <<cur>>
                 ELSE KeepNonSources(SubSeq(argv, 1, o - 1)) \o e_args
                        \o KeepNonSources(SubSeq(argv, o + 2, Len(argv))) \o <<cur>>
        /\ e.command.output = preprocessed_result_file(cc.command, cur)
        /\ e.command.cwd = cc.command.cwd
        /\ e.command.executable = cc.command.executable

Executed == {executed[k] : k \in 1..Len(executed)}

\* C6: for a command without -E the preprocessor command keeps argv[0],
\* holds no discovered source but the current one, which is last, has the
\* pair -o <path> replaced in place by -E -o <preprocessed file> (or these
\* three put right after argv[0] when there is no -o) and keeps every other
\* argument in its order.
C6_PreprocessorCommandShape ==
    \A e \in Executed : PreprocessorShape(e)

\* the argument after the first -o is a discovered source
OutputIsASource ==
    LET argv == cc.command.args
        o == Index(argv, "-o")
    IN  o # 0 /\ o < Len(argv) /\ argv[o + 1] \in Elems(sources_in_args)

\* what holds of C6: the shape is right whenever the argument after -o is
\* not itself taken for a source
C6_ShapeUnlessOutputIsASource ==
    \A e \in Executed : ~OutputIsASource => PreprocessorShape(e)

\* C7: when the arguments hold -E already, no preprocessor is run and no
\* ResultItem is made for any source of the call, and the call returns an
\* empty list instead of raising.
C7_AlreadyPreprocessingYieldsNothing ==
    "-E" \in Elems(cc.command.args) =>
        /\ executed = <<>>
        /\ ret = <<>>
        /\ call_pc # "raised"
        /\ call_pc = "done" => returned = Some(<<>>)
        /\ \A k \in 1..Len(call_log) : call_log[k][1] = "IGNORED"

\* a call with -E and two sources has returned: both sources were refused
C7_Witness ==
    /\ call_pc = "done"
    /\ "-E" \in Elems(cc.command.args)
    /\ Len(sources_in_args) = 2
    /\ src_i = 3
    /\ call_log = <<<<"IGNORED", "cat't make proprocessor command">>,
                    <<"IGNORED", "cat't make proprocessor command">>>>
    /\ returned = Some(<<>>)

AllSourcesPreprocessed ==
    /\ call_pc = "done"
    /\ Len(sources_in_args) >= 2
    /\ Len(executed) = Len(sources_in_args)
    /\ Len(ret) = Len(executed)

\* C8: a call with k >= 2 sources that all preprocess yields k rows with
\* the same command, pairwise different fingerprints and pairwise
\* different preprocessed files.
C8_RowsHaveDistinctFiles ==
    AllSourcesPreprocessed =>
        /\ Len(ret) = Len(sources_in_args)
        /\ \A k \in 1..Len(ret) : ret[k].command = cc.command
        /\ \A j, k \in 1..Len(ret) :
                j # k => ret[j].preprocessed_file # ret[k].preprocessed_file

\* what holds of C8: k rows with the same command, and two rows share the
\* file exactly when their source arguments are equal
C8_RowsShareFileIffSameSource ==
    AllSourcesPreprocessed =>
        /\ Len(ret) = Len(sources_in_args)
        /\ \A k \in 1..Len(ret) :
                /\ ret[k].command = cc.command
                /\ ret[k].source_file = sources_in_args[k]
        /\ \A j, k \in 1..Len(ret) :
                ret[j].preprocessed_file = ret[k].preprocessed_file
                    <=> sources_in_args[j] = sources_in_args[k]

StagedPassedTheTests ==
    \A s \in staged :
        LET of == cc.open_files[s.of]
        IN  /\ s.src = CopySrc(of)
            /\ Exists(s.src)
            /\ "O_RDONLY" \in SplitFlags(of.args.oflag)
            /\ allow(s.src)

\* C9: an open file is staged only if it exists, was opened with O_RDONLY
\* and passes the filter; so no file that lies in one of the ignored
\* directories, and no file whose name ends in .a, .o, .s, .so or
\* .so.<digits>, is staged, however the compiler named it.
C9_NothingIgnoredIsStaged ==
    /\ StagedPassedTheTests
    /\ \A s \in staged :
        LET file == Resolve(<<>>, s.src)
        IN  /\ ~InIgnoredDir(file)
            /\ ~IgnoredExt(file[Len(file)])

\* what holds of C9: the three tests, and the exclusion for the path as the
\* compiler wrote it
C9_StagedPassedTheFilter ==
    /\ StagedPassedTheTests
    /\ \A s \in staged : ~InIgnoredDir(s.src) /\ ~IgnoredExt(s.src[Len(s.src)])

(***************************************************************************)
(* Claims about __atomic_file_copy.                                        *)
(***************************************************************************)
\* the inode holds the whole source, written by one worker, with metadata
CompleteCopy(ino) ==
    /\ inode[ino].size = SrcChunks
    /\ Cardinality(inode[ino].writers) = 1
    /\ inode[ino].stat

\* C10: workers that stage the same destination at the same time write
\* each to a temporary name of their own and publish it by rename; in every
\* state the destination name is absent or holds a complete copy of the
\* source made by exactly one worker, never a partly written file.
C10_DestinationAbsentOrComplete ==
    /\ links[copy_dst] # None => CompleteCopy(links[copy_dst][1])
    /\ \A w \in WorkerPids :
        worker[w].pc = "write" =>
            /\ links[copy_dst_pp(copy_dst, w)] = worker[w].fd
            /\ links[copy_dst] # worker[w].fd
            /\ \A v \in WorkerPids \ {w} : worker[v].fd # worker[w].fd
    /\ \A i \in Inodes : inode[i].writers \subseteq {i[1]}

\* the destination holds the copy of one worker while two workers are both
\* in the middle of writing their next copy of it
C10_Witness ==
    /\ links[copy_dst] # None
    /\ \E v, w \in WorkerPids :
        /\ v # w
        /\ worker[v].pc = "write" /\ worker[v].off = 1
        /\ worker[w].pc = "write" /\ worker[w].off = 1
        /\ inode[worker[v].fd[1]].size < SrcChunks

(***************************************************************************)
(* Claims about get_source_metadata.                                       *)
(***************************************************************************)
MetaArgs == meta_command.args

\* the first -std value of the command, None when it has none
MetaStd == StdFrom(MetaArgs, 1)

\* the language C12 calls effective
EffectiveLang ==
    IF MetaArgs[1] = "g++" THEN CXX
    ELSE IF meta_source = "a.c" THEN C ELSE CXX

\* the language of a -std value: C++ when it holds "++"
LangOfStd(std) == IF std \in {"gnu++0x"} THEN CXX ELSE C

StdDropped == MetaStd # None /\ LangOfStd(MetaStd[1]) # EffectiveLang

\* C11 as stated: when the -std value is dropped for its language and the
\* arguments hold -ansi, the standard comes from the -ansi table of the
\* compiler and the effective language, and from the default table only
\* when the -ansi table has no entry.
C11_AnsiAfterDroppedStd ==
    (meta_row # None /\ StdDropped /\ "-ansi" \in Elems(MetaArgs)) =>
        meta_row[1].standard =
            IF get_ansi_std(meta_command.compiler, EffectiveLang) # None
            THEN get_ansi_std(meta_command.compiler, EffectiveLang)[1]
            ELSE get_default_std(meta_command.compiler, EffectiveLang)

\* what holds of C11: -ansi is looked at only when the command has no -std
\* value at all; after a dropped -std value the default table is used
C11_AnsiOnlyWithoutStd ==
    meta_row # None =>
        /\ (MetaStd = None /\ "-ansi" \in Elems(MetaArgs)
                /\ get_ansi_std(meta_command.compiler, EffectiveLang) # None) =>
            meta_row[1].standard = get_ansi_std(meta_command.compiler, EffectiveLang)[1]
        /\ StdDropped =>
            meta_row[1].standard = get_default_std(meta_command.compiler, EffectiveLang)

\* C12: the language is C++ when argv[0] holds "++", else the language of
\* the extension of the source; a -std value of another language is
\* ignored and the standard is the default of the compiler, a -std value
\* of the same language is the standard (g++ 11.5.0 with -std=c11 x.cpp
\* gives c++ and gnu++17).
C12_EffectiveLanguageAndStd ==
    meta_row # None =>
        /\ meta_row[1].lang = EffectiveLang
        /\ StdDropped =>
            meta_row[1].standard = get_default_std(meta_command.compiler, EffectiveLang)
        /\ (MetaStd # None /\ ~StdDropped) => meta_row[1].standard = MetaStd[1]
        /\ (meta_command.compiler = GccId /\ MetaArgs = <<"g++", "-std=c11", "x.cpp">>) =>
            meta_row[1] = [lang |-> "c++", standard |-> "gnu++17"]

\* the row of g++ 11.5.0 -std=c11 x.cpp has been made
C12_Witness ==
    /\ meta_row # None
    /\ meta_command.compiler = GccId
    /\ MetaArgs = <<"g++", "-std=c11", "x.cpp">>
    /\ StdDropped

\* C14 as stated: the standard of the manifest row is the canonical name of
\* the output mapping, never the raw -std value or default-table name, and
\* a name the mapping does not know is recorded as none.
C14_RowHoldsCanonicalStd ==
    meta_row # None =>
        meta_row[1].standard \in {p[2] : p \in map_std_from_compiler} \cup {"none"}

\* the value of the --std argument of the analyzer, None when it has none
PvsStd ==
    LET stds == SelectSeq(pvs_studio_args, LAMBDA a : a[1] = "--std=")
    IN  IF stds = <<>> THEN None ELSE Some(stds[1][2])

\* the standard the row would hold before any mapping
RawStd ==
    IF MetaStd # None /\ ~StdDropped THEN MetaStd[1]
    ELSE IF MetaStd = None /\ "-ansi" \in Elems(MetaArgs)
            /\ get_ansi_std(meta_command.compiler, EffectiveLang) # None
         THEN get_ansi_std(meta_command.compiler, EffectiveLang)[1]
    ELSE get_default_std(meta_command.compiler, EffectiveLang)

\* C14, amended: the manifest row records the raw name (the -std value, the
\* -ansi name or the default-table name); the canonical name is made by the
\* analyzer when it reads the row, which passes --std=<canonical name> and
\* passes no --std at all for a name the mapping does not know.
C14_AnalyzerMapsRawStd ==
    /\ meta_row # None => meta_row[1].standard = RawStd
    /\ meta_pc = "analyzed" =>
        /\ PvsStd = map_std(RawStd)
        /\ RawStd = "gnu++0x" => PvsStd = Some("c++11")
        /\ RawStd = "c9x" => PvsStd = Some("c99")
        /\ RawStd = "c2y" => PvsStd = None

\* the analyzer has read a row whose raw standard is gnu++0x and passes c++11
C14_Witness ==
    /\ meta_pc = "analyzed"
    /\ meta_row[1].standard = "gnu++0x"
    /\ PvsStd = Some("c++11")

(***************************************************************************)
(* Claims about the metadata of a manifest row.                            *)
(***************************************************************************)
\* the single-file build has returned and its preprocessor returned 0
SingleFileDone ==
    /\ call_pc = "done"
    /\ cc.command.compiler = GccId
    /\ cc.command.cwd = RootCwd
    /\ cc.command.args = SingleFileArgv
    /\ Len(cc.open_files) = 1
    /\ cc.open_files[1].args.path = <<"/", "b", "a.c">>
    /\ cc.open_files[1].args.oflag = "O_RDONLY"
    /\ call_log = <<<<"PREPROCESSED", "ok">>>>

\* C13 as stated: the single-file build with gcc 11.5.0 yields exactly one
\* ResultItem and its source_metadata is {lang: "c", standard: "c11"}.
C13_SingleFileRowIsC11 ==
    SingleFileDone =>
        /\ returned # None
        /\ Len(returned[1]) = 1
        /\ returned[1][1].source_metadata = [lang |-> "c", standard |-> "c11"]

\* C13, amended: the single-file build with gcc 11.5.0 yields exactly one
\* ResultItem, for a.c, and its source_metadata is {lang: "c", standard:
\* "gnu17"}, the default of gcc from 11.0.0 on.
C13_SingleFileRowIsGnu17 ==
    SingleFileDone =>
        /\ returned # None
        /\ Len(returned[1]) = 1
        /\ returned[1][1].source_file = "a.c"
        /\ returned[1][1].source_metadata = [lang |-> "c", standard |-> "gnu17"]

\* the single-file build has returned its one row, with a.c staged
C13_Witness ==
    /\ SingleFileDone
    /\ Len(returned[1]) = 1
    /\ staged # {}

(***************************************************************************)
(* Claims about the choice of the root PID.                                *)
(***************************************************************************)
\* the positions of the store whose ts_start is minimal
MinimalTraces ==
    {i \in 1..Len(run_proc_map) :
        \A j \in 1..Len(run_proc_map) :
            run_proc_map[i].ts_start[1] <= run_proc_map[j].ts_start[1]}

RootChosen == run_pc = "done" /\ Len(run_proc_map) > 1

\* C15 as stated: after loading, root_pid is a PID of the store whose
\* ts_start is minimal over all loaded traces, and among several traces of
\* that minimal ts_start it is the smallest PID, whatever the order in
\* which the files were loaded.
C15_RootIsSmallestPidOfEarliest ==
    RootChosen =>
        /\ \E i \in MinimalTraces : run_proc_map[i].pid = run_root_pid[1]
        /\ \A i \in MinimalTraces : run_root_pid[1] <= run_proc_map[i].pid

\* what holds of C15: root_pid has a minimal ts_start, and among several
\* traces of that ts_start it is the one that was loaded first
C15_RootIsFirstLoadedOfEarliest ==
    RootChosen =>
        /\ \E i \in MinimalTraces :
            /\ run_proc_map[i].pid = run_root_pid[1]
            /\ \A j \in MinimalTraces : i <= j

(***************************************************************************)
(* Claims about the caches of CompilerMatcher.match.                       *)
(***************************************************************************)
CallsOf(id_tuple) == {k \in 1..Len(match_log) : match_log[k].id_tuple = id_tuple}

\* C16: over any sequence of match calls the --version probe runs at most
\* once per (path, argv[0]) pair; a pair whose path fails the prefilter is
\* never probed; a later call with a pair seen before returns what the
\* first call returned, from a cache and without a probe; no pair is in
\* both caches.
C16_ProbeOncePerPair ==
    /\ \A id_tuple \in IdTuples :
        /\ Cardinality({k \in CallsOf(id_tuple) : match_log[k].probe # ""}) <= 1
        /\ ~prefilter_by_path(id_tuple[1]) =>
            \A k \in CallsOf(id_tuple) : match_log[k].probe = ""
        /\ \A j, k \in CallsOf(id_tuple) :
            j < k => /\ match_log[k].result = match_log[j].result
                     /\ match_log[k].probe = ""
                     /\ (id_tuple \in id_version_ncache \/ Cached(id_tuple))
        /\ ~(id_tuple \in id_version_ncache /\ Cached(id_tuple))
    /\ \A e1, e2 \in id_version_cache : e1[1] = e2[1] => e1 = e2

\* a pair was probed and identified and then answered from the positive
\* cache, and a pair whose path fails the prefilter was refused unprobed
C16_Witness ==
    \E j, k, m \in 1..Len(match_log) :
        /\ j < k
        /\ match_log[j].id_tuple = match_log[k].id_tuple
        /\ match_log[j].probe = "identified"
        /\ match_log[k].probe = "" /\ match_log[k].result = match_log[j].result
        /\ ~prefilter_by_path(match_log[m].id_tuple[1])
        /\ match_log[m].result = None /\ match_log[m].probe = ""

(***************************************************************************)
(* Claims about the arguments of the traced build.                         *)
(***************************************************************************)
\* the arguments of the build tool inside run_command
TracedArgs == SubSeq(run_command[1], 4, Len(run_command[1]))

\* C17: the argument list of the traced build tool always holds --noclean
\* and never --clean: every --clean is replaced where it stands, --noclean
\* is put in front when the list has none, and every other argument keeps
\* its value and its place in the order.
C17_TracedBuildNeverCleans ==
    run_command # None =>
        /\ "--noclean" \in Elems(TracedArgs)
        /\ "--clean" \notin Elems(TracedArgs)
        /\ LET shift == Len(TracedArgs) - Len(build_args)
           IN  /\ shift = IF \E i \in 1..Len(build_args) : build_args[i] \in {"--clean", "--noclean"}
                          THEN 0 ELSE 1
               /\ shift = 1 => TracedArgs[1] = "--noclean"
               /\ \A i \in 1..Len(build_args) :
                    TracedArgs[i + shift] =
                        IF build_args[i] = "--clean" THEN "--noclean" ELSE build_args[i]

\* a command was made from arguments that hold --clean twice and end with
\* the spec file
C17_Witness ==
    /\ run_command # None
    /\ Cardinality({i \in 1..Len(build_args) : build_args[i] = "--clean"}) = 2
    /\ TracedArgs[Len(TracedArgs)] = "pkg.spec"

(***************************************************************************)
(* Claims about the parser of the trace files.                             *)
(***************************************************************************)
\* the lines read so far
LinesRead == SubSeq(parse_lines, 1, MinOf(parse_i, Len(parse_lines) + 1) - 1)

\* the syscall lines read so far whose return value is not negative
GoodLinesRead ==
    SelectSeq(LinesRead, LAMBDA l : l.kind = "syscall" /\ l.returnvalue >= 0)

\* C18: every record stored in a ProcTrace has a return value >= 0; a
\* syscall line with a negative return value is dropped, it only moves the
\* start and end time stamps, for every sequence of lines.
C18_StoredRecordsSucceeded ==
    /\ \A k \in 1..Len(proc.syscall) : proc.syscall[k].returnvalue >= 0
    /\ Len(proc.syscall) = Len(GoodLinesRead)
    /\ \A k \in 1..Len(LinesRead) :
        (LinesRead[k].kind = "syscall" /\ LinesRead[k].returnvalue < 0) =>
            /\ proc.ts_start[1] <= Float(LinesRead[k].ts)
            /\ Float(LinesRead[k].ts) <= proc.ts_end[1]

\* a file with a failed open before and after a good one has been parsed:
\* one record is stored, and the failed lines moved the time stamps
C18_Witness ==
    /\ parse_pc = "done"
    /\ Len(parse_lines) = 3
    /\ parse_lines[1].returnvalue < 0 /\ parse_lines[3].returnvalue < 0
    /\ parse_lines[2].kind = "syscall" /\ parse_lines[2].returnvalue >= 0
    /\ Len(proc.syscall) = 1
    /\ proc.ts_start[1] < proc.syscall[1].ts
    /\ proc.ts_end[1] >= proc.syscall[1].ts

MatchingLines == SelectSeq(parse_lines, LAMBDA l : l.kind # "nomatch")

\* C19: a ProcTrace returned from a file with a matching line has
\* ts_start <= ts_end, every stored record's time stamp is in
\* [ts_start, ts_end], and the records are in non-decreasing order of time
\* stamp also when the lines are not; a file with only an exited-with line
\* gives no syscalls and a set exit code.
C19_ReturnedTraceIsOrdered ==
    (parse_pc = "done" /\ MatchingLines # <<>>) =>
        /\ proc.ts_start # None /\ proc.ts_end # None
        /\ proc.ts_start[1] <= proc.ts_end[1]
        /\ \A k \in 1..Len(proc.syscall) :
            /\ proc.ts_start[1] <= proc.syscall[k].ts
            /\ proc.syscall[k].ts <= proc.ts_end[1]
        /\ \A j, k \in 1..Len(proc.syscall) : j < k => proc.syscall[j].ts <= proc.syscall[k].ts
        /\ (Len(parse_lines) = 1 /\ parse_lines[1].kind = "exitcode") =>
            /\ proc.syscall = <<>>
            /\ proc.exitcode = Some(parse_lines[1].returnvalue)

\* a file whose good lines come latest first has been parsed
C19_Witness ==
    /\ parse_pc = "done"
    /\ Len(proc.syscall) >= 2
    /\ \E j, k \in 1..Len(parse_lines) :
        /\ j < k
        /\ parse_lines[j].kind = "syscall" /\ parse_lines[k].kind = "syscall"
        /\ parse_lines[j].returnvalue >= 0 /\ parse_lines[k].returnvalue >= 0
        /\ Float(parse_lines[j].ts) > Float(parse_lines[k].ts)

\* C20 as stated: for any sequence of lines, exit code and killed-by of
\* the ProcTrace are never both set.
C20_ExitCodeOrKilledBy ==
    ~(proc.exitcode # None /\ proc.killedby # None)

\* what holds of C20: each of the two is set exactly when a line of its
\* kind was read, so both are set exactly when the file holds both kinds
C20_SetByTheirLines ==
    /\ proc.exitcode # None <=> \E k \in 1..Len(LinesRead) : LinesRead[k].kind = "exitcode"
    /\ proc.killedby # None <=> \E k \in 1..Len(LinesRead) : LinesRead[k].kind = "killedby"

(***************************************************************************)
(* Claims about version_compare and get_default_std.                       *)
(***************************************************************************)
\* the integer components of a version string, k-th component 0 beyond it
Component(v, k) == IF k <= Len(versiontuple(v)) THEN versiontuple(v)[k] ELSE 0

MaxComponents == 4

\* the sign of the first component in which two versions differ
LexSign(a, b) ==
    IF \A k \in 1..MaxComponents : Component(a, k) = Component(b, k) THEN 0
    ELSE LET k == CHOOSE i \in 1..MaxComponents :
                    /\ Component(a, i) # Component(b, i)
                    /\ \A j \in 1..(i - 1) : Component(a, j) = Component(b, j)
         IN  IF Component(a, k) < Component(b, k) THEN 0 - 1 ELSE 1

\* C21: version_compare is a total order on dotted-integer strings:
\* compare(a, a) = 0, compare(a, b) = -compare(b, a), it is transitive and
\* lexicographic on the integer components, and padding an operand with
\* ".0" components never changes the result.
C21_VersionCompareIsATotalOrder ==
    /\ ver_cmp # None =>
        LET cmp == ver_cmp[1]
        IN  /\ \A x \in {"a", "b", "c"} : cmp[x][x] = 0
            /\ \A x, y \in {"a", "b", "c"} :
                /\ cmp[x][y] \in {0 - 1, 0, 1}
                /\ cmp[x][y] = 0 - cmp[y][x]
                /\ cmp[x][y] = LexSign(ver_in[x], ver_in[y])
            /\ (cmp["a"]["b"] <= 0 /\ cmp["b"]["c"] <= 0) =>
                /\ cmp["a"]["c"] <= 0
                /\ (cmp["a"]["b"] < 0 \/ cmp["b"]["c"] < 0) => cmp["a"]["c"] < 0
    /\ ver_pad # None =>
        /\ ver_pad[1].left # None => ver_pad[1].left[1] = ver_cmp[1]["a"]["b"]
        /\ ver_pad[1].right # None => ver_pad[1].right[1] = ver_cmp[1]["a"]["b"]

\* 1.28 was compared with 1.28.0 and with 1.3, and again with 1.28 padded
C21_Witness ==
    /\ ver_pad # None
    /\ ver_in = [x \in {"a", "b", "c"} |->
                    IF x = "a" THEN "1.28" ELSE IF x = "b" THEN "1.28.0" ELSE "1.3"]
    /\ ver_cmp[1]["a"]["b"] = 0
    /\ ver_cmp[1]["c"]["a"] = 0 - 1
    /\ ver_pad[1].left = Some(0)

\* the row of the gcc table the claim names for a version
GccRow(v) ==
    IF LexSign(v, "5.0.0") < 0 THEN Stds("gnu90", "gnu++98")
    ELSE IF LexSign(v, "6.0.0") < 0 THEN Stds("gnu11", "gnu++98")
    ELSE IF LexSign(v, "11.0.0") < 0 THEN Stds("gnu11", "gnu++14")
    ELSE IF LexSign(v, "15.0.0") < 0 THEN Stds("gnu17", "gnu++17")
    ELSE Stds("gnu23", "gnu++17")

\* C26: get_default_std gives the standard of the row with the greatest
\* min-version <= the version of the compiler, and of the first row below
\* every min-version; for gcc: below 5.0.0 gnu90/gnu++98, from 5.0.0
\* gnu11/gnu++98, from 6.0.0 gnu11/gnu++14, from 11.0.0 gnu17/gnu++17, from
\* 15.0.0 gnu23/gnu++17, a boundary version selecting the higher row.
C26_DefaultStdByVersion ==
    ver_std # None => ver_std[1] = GccRow(ver_in["a"])

\* the defaults of a gcc at the boundary 6.0.0 have been looked up
C26_Witness ==
    /\ ver_std # None
    /\ ver_in["a"] = "6.0.0"
    /\ ver_std[1] = Stds("gnu11", "gnu++14")

(***************************************************************************)
(* Claims about execveat.                                                  *)
(***************************************************************************)
IsExecveat(l) == l.kind = "syscall" /\ l.name = "execveat"

\* C22: an execveat is never taken for an execve and never passed over:
\* the parser aborts with an error at an execveat line, so no record of it
\* is stored and no ProcTrace, and with it no list of compiler calls, comes
\* from a trace file that holds one.
C22_ParserAbortsOnExecveat ==
    /\ \A k \in 1..Len(proc.syscall) : proc.syscall[k].name # "execveat"
    /\ \A k \in 1..Len(LinesRead) : ~IsExecveat(LinesRead[k])
    /\ (parse_pc = "lines" /\ parse_i <= Len(parse_lines)) =>
            (ENABLED ParseExecveat <=> IsExecveat(ThisLine))
    /\ parse_pc = "NotImplementedError" => IsExecveat(ThisLine)
    /\ parse_pc = "done" => \A k \in 1..Len(parse_lines) : ~IsExecveat(parse_lines[k])

\* the parser has stopped at an execveat line that follows a stored open
C22_Witness ==
    /\ parse_pc = "NotImplementedError"
    /\ parse_i = 2
    /\ Len(proc.syscall) = 1
    /\ IsExecveat(parse_lines[2])

\* the walker's half of C22: a walk that read an execveat record has
\* stopped with NotImplementedError at that record and yields no list
C22_WalkerAbortsOnExecveat ==
    \A p \in PIDs : \A k \in 1..Len(syscall[p]) :
        syscall[p][k].name = "execveat" =>
            /\ walk_status = "NotImplementedError"
            /\ k = Len(syscall[p])
            /\ Top.pid = p /\ Top.i = k

(***************************************************************************)
(* Claims about the working directory of the walk.                         *)
(***************************************************************************)
\* join and normalize: an absolute path replaces the directory, "." is
\* dropped and ".." takes the last component away (the root has no parent)
RECURSIVE Normalized(_, _)
Normalized(done, parts) ==
    IF parts = <<>> THEN done
    ELSE IF parts[1] = "/" THEN Normalized(<<"/">>, Tail(parts))
    ELSE IF parts[1] = "." THEN Normalized(done, Tail(parts))
    ELSE IF parts[1] = ".."
         THEN Normalized(IF Len(done) > 1 THEN SubSeq(done, 1, Len(done) - 1) ELSE done,
                         Tail(parts))
    ELSE Normalized(Append(done, parts[1]), Tail(parts))

NormalJoin(cwd, path) == Normalized(cwd, path)

\* C23 as stated: after a chdir or fchdir record the cwd of the walker is
\* the normalized join of the previous cwd and the path: an absolute path
\* replaces the cwd and "." and ".." are resolved, so that chdir("sub")
\* followed by chdir("..") restores the cwd and the cwd stored in a
\* CompilerCommand holds no ".." component.
C23_CwdIsNormalized ==
    [][WalkChdir =>
        Top'.cwd = NormalJoin(Top.cwd, syscall'[Top.pid][Top.i].path)]_vars

\* C23, its consequence for the commands: no cwd of a CompilerCommand
\* holds a ".." component
C23_CommandCwdHasNoDotDot ==
    /\ \A k \in 1..Len(compiler_calls) : ".." \notin Elems(compiler_calls[k].command.cwd)
    /\ \A k \in 1..Len(stack) :
        stack[k].compiler_call # None =>
            ".." \notin Elems(stack[k].compiler_call[1].command.cwd)

\* what holds of C23: the cwd is the plain join of pathlib, in which an
\* absolute path replaces the cwd and "." is dropped, and ".." stays
C23_CwdIsJoined ==
    [][WalkChdir =>
        Top'.cwd = (IF IsAbsolute(syscall'[Top.pid][Top.i].path)
                    THEN SelectSeq(syscall'[Top.pid][Top.i].path, LAMBDA c : c # ".")
                    ELSE Top.cwd \o SelectSeq(syscall'[Top.pid][Top.i].path, LAMBDA c : c # "."))]_vars

(***************************************************************************)
(* Claims about the open files of a call.                                  *)
(***************************************************************************)
\* every frame of the walk and every finished call, with its open files
OpenFileLists ==
    {stack[k].open_files : k \in 1..Len(stack)}
    \cup {compiler_calls[k].open_files : k \in 1..Len(compiler_calls)}

RecordedOpens == UNION {Elems(l) : l \in OpenFileLists}

\* the cwd of the walker in front of each record, replayed from the start:
\* CwdAt(p, k, start) is the cwd of an activation of PID p that began with
\* cwd start, in front of its k-th record
RECURSIVE CwdAt(_, _, _)
CwdAt(p, k, start) ==
    IF k = 1 THEN start
    ELSE LET before == CwdAt(p, k - 1, start)
             sc == syscall[p][k - 1]
         IN  IF sc.name \in {"chdir", "fchdir"}
             THEN (IF IsAbsolute(sc.path) THEN sc.path ELSE before \o sc.path)
             ELSE before

\* the cwds with which some activation of PID p can have begun
RECURSIVE StartCwds(_, _)
StartCwds(p, depth) ==
    (IF p = RootPid THEN {RootCwd} ELSE {})
    \cup (IF depth = 0 THEN {}
          ELSE UNION {{CwdAt(q, k, s) : s \in StartCwds(q, depth - 1)} :
                        <<q, k>> \in {qk \in PIDs \X (1..MaxRecords) :
                            /\ qk[2] <= Len(syscall[qk[1]])
                            /\ syscall[qk[1]][qk[2]].name \in fork_syscall_set
                            /\ syscall[qk[1]][qk[2]].returnvalue = p}})

\* C24: the base of each attributed open file is the cwd of the walker at
\* the place of that open in the records of its process (for openat and
\* openat2 the directory path the tracer supplied, when there is one);
\* records that follow, and records of child processes, never change the
\* base of an open already recorded, and the resolved path is absolute.
C24_BaseIsCwdAtTheOpen ==
    /\ \A of \in RecordedOpens :
        LET sc == syscall[of.rec[1]][of.rec[2]]
        IN  /\ sc.name \in {"open", "openat", "openat2"}
            /\ of.args.path = sc.path
            /\ IF sc.name # "open" /\ sc.cwd # None
               THEN of.base = sc.cwd[1]
               ELSE \E s \in StartCwds(of.rec[1], MaxDepth) :
                        of.base = CwdAt(of.rec[1], of.rec[2], s)
            /\ IsAbsolute(JoinPath(of.base, of.args.path))

\* an open recorded before a chdir of the same process keeps its base
C24_BaseNeverChanges ==
    [][\A l \in OpenFileLists : \A k \in 1..Len(l) :
        \E m \in OpenFileLists' : \E j \in 1..Len(m) : m[j] = l[k]]_vars

\* a call was stored whose process opened a file in /b, changed directory
\* and opened a file again
C24_Witness ==
    \E c \in 1..Len(compiler_calls) :
        LET l == compiler_calls[c].open_files
        IN  /\ Len(l) >= 2
            /\ l[1].base = RootCwd
            /\ l[2].base # RootCwd
            /\ l[1].rec[1] = l[2].rec[1]
            /\ syscall[l[2].rec[1]][l[2].rec[2]].name = "open"

\* the openat2 records read inside a compiler, by PID and position
OpenatTwoInside ==
    {<<p, k>> \in PIDs \X (1..MaxRecords) :
        /\ k <= Len(syscall[p])
        /\ syscall[p][k].name = "openat2"
        /\ syscall[p][k].returnvalue >= 0
        /\ \E f \in 1..Len(stack) :
            /\ stack[f].pid = p
            /\ stack[f].is_compiler_internals
            /\ (stack[f].i > k \/ (stack[f].i = k /\ walk_status # "walking"))}

\* C25 as stated: for every successful openat2 record met inside a
\* compiler the walker appends an open-file record in which mode is
\* optional: an openat2 whose how-struct has flags and no mode is recorded
\* with its flags, and the walk goes on without error.
C25_OpenatTwoModeIsOptional ==
    /\ walk_status # "KeyError"
    /\ \A pk \in OpenatTwoInside :
        \E l \in OpenFileLists : \E j \in 1..Len(l) :
            /\ l[j].rec = pk
            /\ l[j].args.oflag = syscall[pk[1]][pk[2]].oflag[1]
            /\ l[j].args.mode = syscall[pk[1]][pk[2]].mode

\* what holds of C25: an openat2 record is appended only when its
\* how-struct has both flags and mode; the walk ends with KeyError at the
\* first one inside a compiler that lacks either
C25_OpenatTwoNeedsMode ==
    /\ \A of \in RecordedOpens :
        syscall[of.rec[1]][of.rec[2]].name = "openat2" =>
            /\ syscall[of.rec[1]][of.rec[2]].oflag # None
            /\ syscall[of.rec[1]][of.rec[2]].mode # None
    /\ walk_status = "KeyError" =>
        LET sc == syscall[Top.pid][Top.i]
        IN  /\ sc.name = "openat2"
            /\ Top.is_compiler_internals
            /\ sc.oflag = None \/ sc.mode = None

\* C28 as stated: for every finite trace store the recursive walk from
\* the root PID terminates, also when a PID is the fork, vfork or clone
\* return value in a record of one of its own descendants or in more than
\* one record: the walk never runs out of stack.
C28_WalkTerminates ==
    walk_status # "RecursionError"

\* what holds of C28: a walk that runs out of stack is inside a cycle, its
\* innermost PID being on the stack more than once; a PID forked twice by
\* the same parent is walked twice and the walk goes on
C28_StackOverflowNeedsACycle ==
    walk_status = "RecursionError" =>
        /\ Len(stack) = MaxDepth
        /\ \E j, k \in 1..Len(stack) : j < k /\ stack[j].pid = stack[k].pid

(***************************************************************************)
(* Claims about the outcomes of the --version probe.                       *)
(***************************************************************************)
\* C27: an executable that passes the path prefilter but is not recognized
\* is never an error: match returns None for every outcome of the probe, an
\* exit 0 with empty output included, and match never raises.
C27_MatchNeverRaises == match_pc # "IndexError"

\* what holds instead: match raises only on a probe that exits 0 without
\* output, and then returns nothing and caches nothing for the pair; after a
\* probe that raised, exited non-zero or printed an unclassified first line
\* the call returned None and the pair is in the negative cache
C27_OnlyEmptyOutputRaises ==
    /\ match_pc = "IndexError" <=>
        (match_log # <<>> /\ match_log[Len(match_log)].probe = "no output")
    /\ \A k \in 1..Len(match_log) :
        /\ match_log[k].probe = "no output" =>
            /\ k = Len(match_log)
            /\ match_log[k].id_tuple \notin id_version_ncache
            /\ ~Cached(match_log[k].id_tuple)
        /\ match_log[k].probe \in {"raised", "nonzero", "unknown"} =>
            /\ match_log[k].result = None
            /\ match_log[k].id_tuple \in id_version_ncache

(***************************************************************************)
(* Claims about where the staged files are written.                        *)
(***************************************************************************)
StagingRoot == <<"<output_dir>", "root">>

\* the directory an entry is created in
Parent(path) == SubSeq(path, 1, Len(path) - 1)

\* C29: every staged file is written at <output_dir>/root/<absolute path of
\* the opened file without its leading slash>, and the directory in which
\* the destination and its temporary file are created lies inside
\* <output_dir>/root, also when the opened path holds ".." components.
C29_StagedInsideRoot ==
    \A s \in staged :
        LET file == Resolve(<<>>, s.src)
            dst  == Resolve(<<>>, s.dst)
        IN  /\ dst = StagingRoot \o Tail(file)
            /\ IsPrefix(StagingRoot, Parent(dst))

\* what holds instead: the destination is the text of copy_src under
\* <output_dir>/root, and it is the place the claim names, inside
\* <output_dir>/root, whenever no ".." of copy_src climbs above its root
C29_DstIsSrcTextUnderRoot ==
    \A s \in staged :
        /\ s.dst = StagingRoot \o Tail(s.src)
        /\ Len(Resolve(<<>>, s.dst)) = Len(Resolve(<<>>, s.src)) + 1 =>
            /\ Resolve(<<>>, s.dst) = StagingRoot \o Tail(Resolve(<<>>, s.src))
            /\ IsPrefix(StagingRoot, Parent(Resolve(<<>>, s.dst)))

(***************************************************************************)
(* Claims about the worker pool.                                           *)
(***************************************************************************)
\* the list the loop without a pool builds: the rows of the first call,
\* then those of the second, and so on
RECURSIVE SequentialFrom(_)
SequentialFrom(i) ==
    IF i > Len(work) THEN <<>> ELSE work[i].rows \o SequentialFrom(i + 1)

\* row a stands before row b in the order of the calls and of their sources
RowBefore(a, b) == a[1] < b[1] \/ (a[1] = b[1] /\ a[2] < b[2])

\* C30: for the same prefiltered calls and the same outcomes of the
\* preprocessor runs, the result list built with a pool equals the list
\* built sequentially, the same rows in the same order, whatever the order
\* in which the workers return: without a pool the calls return in list
\* order, and with or without one the manifest holds the rows of the calls
\* in list order.
C30_PoolEqualsSequential ==
    /\ parallel = 1 => \A k \in 1..Len(completed) : completed[k] = k
    /\ result_json # None =>
        LET results == result_json[1]
        IN  /\ results = SequentialFrom(1)
            /\ \A j, k \in 1..Len(results) : j < k => RowBefore(results[j], results[k])
            /\ Elems(results) = UNION {Elems(work[i].rows) : i \in 1..Len(work)}

\* a pool whose second call returned before the first, both with rows, and
\* the manifest written
C30_Witness ==
    /\ parallel > 1
    /\ completed = <<2, 1>>
    /\ work[1].rows # <<>> /\ work[2].rows # <<>>
    /\ result_json # None
    /\ result_json[1] = work[1].rows \o work[2].rows

====
